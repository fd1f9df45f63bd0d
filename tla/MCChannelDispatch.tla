------------------------- MODULE MCChannelDispatch -------------------------
(* Small instances of ChannelDispatch: one sender in one chat, whose       *)
(* messages interrupt each other or not.                                   *)
EXTENDS ChannelDispatch, TLC

CONSTANTS m1, m2, m3, chat, alice

OneChat == [m \in Messages |-> chat]
OneSender == [m \in Messages |-> alice]

\* Messages of one sender differ in nothing but their name.
SameSender == Permutations(Messages)

=============================================================================
