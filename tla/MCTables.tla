------------------------------ MODULE MCTables ------------------------------
(***************************************************************************)
(* The three readers of tables that the compiler prints, checked in one    *)
(* run.  They share nothing; a behaviour exercises one of them.            *)
(***************************************************************************)
EXTENDS GcMap, Lsda

\* A catch-all; a cleanup and then a catch-all; a cleanup alone.
MCChains == {<<1>>, <<0, 1>>, <<0>>}

VARIABLE reader

vars == <<gcMapVars, leb128Vars, lsdaVars, reader>>

MCInit ==
  /\ reader \in {"gcmap", "leb128", "lsda"}
  /\ Leb128Init
  /\ IF reader = "gcmap" THEN GcMapInit
     ELSE /\ image = <<0>> /\ left = 0 /\ live = <<>> /\ starts = <<>>
          /\ ip = 0 /\ addr = 0 /\ i = 0 /\ lookup = "idle"
  /\ IF reader = "lsda" THEN LsdaInit
     ELSE /\ sites = <<>> /\ chain = <<>> /\ lsda = <<>> /\ query = <<>> /\ p = 0
          /\ table = <<>> /\ callsite = NoSite /\ action = <<>>
          /\ answer = [code |-> "idle", pad |-> 0, selector |-> 0]

MCNext ==
  \/ reader = "gcmap" /\ GcMapNext /\ UNCHANGED <<leb128Vars, lsdaVars, reader>>
  \/ reader = "leb128" /\ NextByte /\ UNCHANGED <<gcMapVars, lsdaVars, reader>>
  \/ reader = "lsda" /\ LsdaNext /\ UNCHANGED <<gcMapVars, leb128Vars, reader>>

MCSpec == MCInit /\ [][MCNext]_vars
=============================================================================
