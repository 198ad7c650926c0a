--------------------------- MODULE MCModelRegistry ---------------------------
(* Small instances of ModelRegistry for TLC. *)
EXTENDS ModelRegistry, TLC

CONSTANTS hosted, wide, own, plainId, searchId, prefixedId, n1, n2

\* Web access: wide has it on every model, hosted on one, own on none.
MCVendors == {hosted, wide, own}
MCWebVendors == {wide}
MCWebModels == {<<hosted, searchId>>}
MCPlatformKeys == {wide}
MCIds == {plainId, searchId, prefixedId}
MCPrefixOf == (plainId :> None) @@ (searchId :> None) @@ (prefixedId :> hosted)

\* A vendor-hosted model with every knob on but web access, and the same with it; and three
\* that a rule refuses: no endpoint, a switch the capability map does not allow, a doubled
\* prefix. A create is refused the last three, a table may hold them.
MCDraft == [name |-> n1, provider |-> hosted, id |-> searchId, endpoint |-> FALSE,
            image |-> TRUE, text |-> TRUE, web |-> FALSE, off |-> FALSE,
            warm |-> TRUE, hours |-> TRUE]
MCDrafts == {MCDraft, [MCDraft EXCEPT !.web = TRUE], [MCDraft EXCEPT !.name = n2, !.provider = own],
             [MCDraft EXCEPT !.id = plainId, !.web = TRUE], [MCDraft EXCEPT !.id = prefixedId]}

\* One or two fields at a time, each value that some rule looks at.
MCPatches ==
    {"provider" :> own, ("provider" :> own) @@ ("endpoint" :> TRUE), "endpoint" :> FALSE,
     "provider" :> hosted, "id" :> plainId, "image" :> FALSE, "image" :> TRUE,
     "off" :> TRUE, "off" :> FALSE, "warm" :> FALSE, "warm" :> TRUE,
     "hours" :> FALSE, "hours" :> TRUE, "name" :> n2,
     "provider" :> wide, "endpoint" :> TRUE, "id" :> searchId, "id" :> prefixedId,
     ("provider" :> hosted) @@ ("endpoint" :> FALSE) @@ ("id" :> searchId),
     "web" :> TRUE, "web" :> FALSE, "text" :> FALSE}

\* Two writes alone, on rows that may predate the rules; or one beside checks, traffic and
\* sweeps, or two beside either, on rows that keep every rule and stay clear of their edges.
WritesAlone ==
    /\ now = 0 /\ checks = 0
    /\ \A k \in Tasks : task[k] = NoTask
    /\ \A s \in Sweeps : sweep[s] = NoSweep
RowsInService ==
    /\ edits <= 1 \/ now = 0 \/ checks = 0
    /\ \A m \in Models : ai[m].st # "none" =>
          /\ ai[m].legacy = {}
          /\ ai[m].d.provider = (IF ai[m].d.endpoint THEN own ELSE hosted)
          /\ ai[m].d.id # prefixedId
          /\ ai[m].d.text /\ ~ai[m].d.web
Explored == WritesAlone \/ RowsInService

Symmetry == Permutations(Models) \cup Permutations(Tasks) \cup Permutations(Sweeps)

=============================================================================
