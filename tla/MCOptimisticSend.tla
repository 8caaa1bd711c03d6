-------------------------- MODULE MCOptimisticSend --------------------------
(* Instances of OptimisticSend for TLC. *)
EXTENDS OptimisticSend

\* Two texts, one at a time, the echo before or after the reply, a message of
\* the peer and an event that could not be stored.
Calm == [group |-> FALSE, sends |-> 2, contents |-> {"text"},
         senders |-> {"peer"}, others |-> 1, overlap |-> 1, lost |-> 0,
         retries |-> 1, replays |-> 0, reloads |-> 0]

\* Nothing else in the way: a text and a sticker, in either order.
Mixed == [Calm EXCEPT !.contents = {"text", "sticker"}, !.others = 0,
                      !.retries = 0]

\* Two texts at a time.
Overlapping == [Calm EXCEPT !.overlap = 2, !.others = 0, !.retries = 0]

\* A send to a group whose reply or row is lost, during a message of the
\* telephone, and a rendering of the page.
Lossy == [group |-> TRUE, sends |-> 1, contents |-> {"sticon", "image"},
          senders |-> {"phone"}, others |-> 1, overlap |-> 1, lost |-> 1,
          retries |-> 0, replays |-> 0, reloads |-> 1]

\* A send during a message of a member, events that must be retried or come
\* again, and a rendering of the page.
Replayed == [Lossy EXCEPT !.contents = {"sticker"}, !.senders = {"peer"}, !.lost = 0,
                          !.retries = 1, !.replays = 1]

SendCases == {Calm, Mixed, Overlapping, Lossy, Replayed}
=============================================================================
