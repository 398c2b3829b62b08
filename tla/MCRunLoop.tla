------------------------------- MODULE MCRunLoop -------------------------------
(***************************************************************************)
(* The bytes of RunLoop's packets, for TLC.                                *)
(***************************************************************************)
EXTENDS RunLoop

ZeroByte == <<Garbage, 0>>
PacketBytes == {ZeroByte} \cup {<<<<n, l>>, i>> : n \in 1 .. MaxPackets, l \in Lens,
                                                 i \in -1 .. size}
================================================================================
