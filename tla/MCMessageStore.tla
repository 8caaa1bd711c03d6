--------------------------- MODULE MCMessageStore ---------------------------
(* Instances of MessageStore for TLC. *)
EXTENDS MessageStore
CONSTANTS ann, bob

\* Encrypted messages of a one-to-one chat, seen marks and unsends.
Replay == [members |-> {ann}, group |-> FALSE, kinds |-> {"e2ee"},
           types |-> {"message", "seen", "destroy"}, window |-> 3,
           msgs |-> 3, ops |-> 4, syncs |-> 1, faults |-> 1, removals |-> 0]

\* A group of two others whose fetches return only the last message.
Converge == [members |-> {ann, bob}, group |-> TRUE, kinds |-> {"clear"},
             types |-> {"message", "react", "read", "chat"}, window |-> 1,
             msgs |-> 2, ops |-> 4, syncs |-> 1, faults |-> 1, removals |-> 0]

\* A one-to-one chat that is removed.
Remove == [members |-> {ann}, group |-> FALSE, kinds |-> {"e2ee", "clear", "other"},
           types |-> {"message", "seen", "read"}, window |-> 2,
           msgs |-> 2, ops |-> 3, syncs |-> 1, faults |-> 1, removals |-> 1]

StoreSetups == {Replay, Converge, Remove}
=============================================================================
