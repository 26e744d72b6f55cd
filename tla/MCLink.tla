------------------------------- MODULE MCLink -------------------------------
(***************************************************************************)
(* The link of two bridges for TLC, over either transport: the frames of   *)
(* FrameLink, which datagrams carry, or the bytes of TcpWire.  The one     *)
(* that is not used does not move.                                         *)
(*                                                                         *)
(* Three frames are enough for a late one to meet two newer ones, with a   *)
(* restart of the sender between any two of them.  Over TCP both byte      *)
(* orders on both sides with one writer, after up to two stray bytes; and  *)
(* two writers.  One message is a marker.                                  *)
(***************************************************************************)
EXTENDS FrameLink, TcpWire

Messages == << <<AB, CD>>, << >>, <<CD, 0>> >>
Junk     == {<< >>, <<0>>, <<AB>>, <<AB, AB>>, <<AB, CD>>}
AllLinks ==
    [peerLittle : BOOLEAN, hostLittle : BOOLEAN, writers : {{"worker"}}, junk : Junk, frames : {2}]
    \cup [peerLittle : {TRUE}, hostLittle : {TRUE}, writers : {{"exec"}}, junk : {<< >>},
          frames : {3}]
    \cup [peerLittle : {FALSE}, hostLittle : {FALSE}, writers : {{"exec", "worker"}},
          junk : {<< >>}, frames : {2}]

VARIABLE transport

LinkInit ==
    /\ transport \in {"udp", "tcp"} /\ Init /\ WireInit
    /\ transport = "udp" => link = CHOOSE l \in Links : TRUE

Datagrams == transport = "udp" /\ Next /\ UNCHANGED <<wireVars, transport>>
Stream    == transport = "tcp" /\ WireNext /\ UNCHANGED <<vars, transport>>

LinkVars == <<vars, wireVars, transport>>

\* TcpWire's fairness, over TCP.
LinkSpec ==
    /\ LinkInit /\ [][Datagrams \/ Stream]_LinkVars
    /\ WF_wireVars(transport = "tcp" /\ PacketReads)
    /\ \A t \in {"exec", "worker"} : WF_wireVars(transport = "tcp" /\ t \in link.writers /\ WriteSome(t))
=============================================================================
