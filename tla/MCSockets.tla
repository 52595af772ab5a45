------------------------------ MODULE MCSockets ------------------------------
(***************************************************************************)
(* Two threads, a listener and both ends of a connection, for TLC.         *)
(***************************************************************************)
EXTENDS InternetSockets

(* A process with descriptors for all sockets, and one where one is taken. *)
ThreeDescriptors == 1 .. 3
NoneOrOne == {{}, {2}}
=============================================================================
