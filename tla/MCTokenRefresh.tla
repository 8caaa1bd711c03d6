-------------------------- MODULE MCTokenRefresh --------------------------
(* TLC instance of TokenRefresh: constants are given in the .cfg files.    *)
EXTENDS TokenRefresh

\* One kind of thread at a time beside the refresher.
EachThread == {{"call"}, {"obs"}, {"send", "poll"}}
OnlyObs    == {{"obs"}}
OnlyPoll   == {{"poll"}}
=============================================================================
