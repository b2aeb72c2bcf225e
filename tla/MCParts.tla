-------------------------------- MODULE MCParts --------------------------------
(***************************************************************************)
(* Small instances of the modules of Parts, checked in one run.            *)
(***************************************************************************)
EXTENDS Parts

MCSkew == {-1, 0, 1}

MCMessage == {[header |-> 2, text |-> 1], [header |-> 2, text |-> 5]}

Digits(n, v) == [len |-> n, value |-> v]
MCAddr ==
    LET d(v) == Digits(1, v) IN
    {<<d(1), d(0), d(0), d(1)>>,
     <<Digits(3, 192), Digits(3, 255), Digits(3, 100), Digits(3, 100)>>,
     <<Digits(2, 10), Digits(3, 256), d(2), d(3)>>,
     <<d(1), d(2), d(3), d(4), d(5)>>,
     <<Digits(2, 10), Digits(0, 0), d(2), d(3), d(4)>>,
     <<d(1), Digits(2, 2), d(3), d(4)>>,
     <<Digits(2, 10), Digits(2, 20), Digits(2, 30)>>}
MCPort == {-1, 65535, 65537}
=============================================================================
