---------------------------- MODULE SchemaHistory ----------------------------
(***************************************************************************)
(* What startup promises about the database schema, without connections,   *)
(* locks or failures: migrations are applied one at a time, each once and  *)
(* in the order of their versions, and a process serves commands only      *)
(* against a schema that has every migration it was built with.            *)
(* Migrations implements this specification.                               *)
(***************************************************************************)
EXTENDS Naturals

CONSTANTS Processes, Files

VARIABLES
    schema,     \* versions of the migrations applied
    serving     \* processes that have finished their startup

shVars == <<schema, serving>>

SHInit == schema = {} /\ serving = {}

\* Migration v comes after every migration of a lower version, of any release.
ApplyNext(v) ==
    /\ v \notin schema
    /\ \A p \in Processes : \A w \in Files[p] : w < v => w \in schema
    /\ schema' = schema \cup {v}
    /\ UNCHANGED serving

Serve(p) == /\ Files[p] \subseteq schema
            /\ serving' = serving \cup {p}
            /\ UNCHANGED schema

Leave(p) == /\ serving' = serving \ {p}
            /\ UNCHANGED schema

SHNext == \E p \in Processes : \/ \E v \in Files[p] : ApplyNext(v)
                               \/ Serve(p)
                               \/ Leave(p)

SHSpec == SHInit /\ [][SHNext]_shVars
=============================================================================
