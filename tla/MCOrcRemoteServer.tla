--------------------------- MODULE MCOrcRemoteServer ---------------------------
(* OrcRemoteServer with the packets its clients send in the runs. *)
EXTENDS OrcRemoteServer

CONSTANTS s1, s2

Op(cmdid, source, length, offset) ==
  [cmdid |-> cmdid, source |-> source, length |-> length, offset |-> offset]

(* Commands in packets of their own, as the clients of the repository make
   them, and packets of two: on one source and on both, with one command no
   handler is for and one that is not valid. *)
Mixed ==
  { <<Op("WRITE", s1, 2, 0)>>, <<Op("READ", s1, 2, 1)>>,
    <<Op("DELETE", s1, 0, 0)>>,
    <<Op("WRITE", s1, 1, 0), Op("READ", s2, 1, 0)>>,
    <<Op("NA", s1, 0, 0), Op("LENGTH", s1, 0, 0)>>,
    <<Op("WRITE", s2, 0, 0), Op("invalid", s1, 0, 0)>> }

(* A source written in two parts and read in one. *)
WriteAndRead == { <<Op("WRITE", s1, 1, 0)>>, <<Op("READ", s1, 2, 0)>> }
=============================================================================
