---------------------------- MODULE MCLoginStore ----------------------------
(* Instances of LoginStore for TLC. *)
EXTENDS LoginStore, TLC
CONSTANTS a1, a2

Symmetry == Permutations(Windows) \cup Permutations(Pendings)

\* One account, native logins and an exit of the program anywhere.
Resumed == [accounts |-> {a1}, installed |-> {}, clients |-> {"native"},
            logins |-> 3, faults |-> 0, crashes |-> 1]

\* The same for two logins, and a file write that fails.
Unwritten == [Resumed EXCEPT !.logins = 2, !.faults = 1]

\* A second account that may scan the code, and the Chrome client.
Scanned == [accounts |-> {a1, a2}, installed |-> {a1}, clients |-> {"native", "chrome"},
            logins |-> 3, faults |-> 0, crashes |-> 0]

\* A Chrome login and a file write that fails.
Chrome == [Resumed EXCEPT !.clients = {"chrome"}, !.logins = 2, !.faults = 1]

LoginSetups == {Resumed, Unwritten, Scanned, Chrome}
ResurrectSetups == {[Resumed EXCEPT !.logins = 2]}
=============================================================================
