------------------------------- MODULE MCMesh -------------------------------
(***************************************************************************)
(* Instances of Mesh for TLC.                                              *)
(***************************************************************************)
EXTENDS Mesh, TLC

ConnSymmetry == Permutations(Conn)

(***************************************************************************)
(* Calls of three clients on a network and a server without faults: the    *)
(* behaviours of Mesh in which no link is lost, no connection is ended by  *)
(* the server and the process stays up.                                    *)
(***************************************************************************)
CallNext ==
    \E c \in Conn :
        \/ Connect(c) /\ UNCHANGED mesh
        \/ \E r \in RoomId : SendJoin(c, r)
        \/ ServerReads(c) \/ SayAndRead(c) \/ HandleMessage(c) \/ JoinRefused(c)
        \/ Quit(c) \/ Closed(c) \/ ServerCloses(c)
        \/ \E d \in Conn : RunOperation(c, d) \/ Gather(c, d)

CallSpec == MeshInit /\ [][CallNext]_meshVars
=============================================================================
