-------------------------------- MODULE Link --------------------------------
(***************************************************************************)
(* What a device without a descriptor promises to those who listen: from   *)
(* the moment it is opened they hear what it says, in its order, without a *)
(* gap and from nobody else, until it is closed. How it gets to them is    *)
(* the reader thread's business.                                           *)
(***************************************************************************)
EXTENDS Naturals, Sequences

VARIABLES
    device,   \* the opening of the device, 0 while it is closed
    said,     \* what it has said since
    heard     \* what was heard of it

link == <<device, said, heard>>

Silent == <<>>

Init == device = 0 /\ said = Silent /\ heard = Silent

Open ==
    /\ device = 0
    /\ device' \in Nat \ {0}
    /\ UNCHANGED <<said, heard>>

Say(what) ==
    /\ device # 0
    /\ said' = Append(said, what)
    /\ UNCHANGED <<device, heard>>

Hear ==
    /\ device # 0 /\ Len(heard) < Len(said)
    /\ heard' = Append(heard, said[Len(heard) + 1])
    /\ UNCHANGED <<device, said>>

Close ==
    /\ device # 0
    /\ device' = 0 /\ said' = Silent /\ heard' = Silent

Next ==
    \/ Open \/ Hear \/ Close
    \/ Say(<<device, Len(said) + 1>>)

Spec == Init /\ [][Next]_link
=============================================================================
