-------------------------------- MODULE Link --------------------------------
(***************************************************************************)
(* The connection of a client to its App Server as the rest of the client  *)
(* sees it: numbered generations, one attached at a time, usable once it   *)
(* is initialized.  Prompts and watches build on it; Connection implements *)
(* it.                                                                     *)
(***************************************************************************)
EXTENDS Naturals

CONSTANT MaxGenerations  \* bound on connections

VARIABLES
  generation,  \* the latest generation
  connection,  \* the attached generation, 0 when detached
  ready        \* the initialized generation, 0 when there is none

linkVars == <<generation, connection, ready>>

LinkInit == generation = 0 /\ connection = 0 /\ ready = 0

Attach ==
  /\ connection = 0
  /\ generation < MaxGenerations
  /\ generation' = generation + 1
  /\ connection' = generation'
  /\ ready' = 0

Publish ==
  /\ connection # 0
  /\ connection = generation
  /\ ready' = generation
  /\ UNCHANGED <<generation, connection>>

Detach ==
  /\ connection # 0
  /\ connection' = 0
  /\ ready' = 0
  /\ UNCHANGED generation

LinkNext == Attach \/ Publish \/ Detach

LinkSpec == LinkInit /\ [][LinkNext]_linkVars
=============================================================================
