---------------------------- MODULE Annotations ----------------------------
(***************************************************************************)
(* The labels annotators put on one message and the vocabulary they choose *)
(* from.  A label row is curated (shipped with the program, reconciled by  *)
(* the sync command of a deployment) or an annotator's own, made the first *)
(* time the wording is typed.  The uniqueness indexes do not span the two  *)
(* kinds: that a wording is one row rests on the order of reads alone.  A  *)
(* name stands for its case-folded wording.                                *)
(***************************************************************************)
EXTENDS Integers, FiniteSets, Callers

CONSTANTS
    Curated,      \* ids of curated rows, a function of the catalog key
    UserLabels,   \* ids of annotators' rows
    Words, AnnotationIds,
    Rank,         \* the order of label ids
    MaxDeploys    \* bound on catalog changes

ASSUME AnnotationsAssumption ==
    /\ Managers \subseteq Users /\ Curated \cap UserLabels = {}
    /\ Rank \in [Curated \cup UserLabels -> Nat]
    /\ \A k, l \in Curated \cup UserLabels : k # l => Rank[k] # Rank[l]
    /\ MaxDeploys \in Nat
    /\ None \notin Curated \cup UserLabels \cup Words \cup Users \cup AnnotationIds

VARIABLES
    catalog,    \* catalog[k]: wording the deployed program ships under key k, or None
    deploys,    \* catalog changes so far
    convOpen,   \* the conversation is live
    label,      \* label[l]: the annotation_labels row
    ann,        \* ann[a]: the annotations row
    labelReq,   \* labelReq[r]: the request or sync between its reads and its commit
    overlapped  \* history: a sync and the creation of a label have overlapped

annotationsVars == <<catalog, deploys, convOpen, label, ann, labelReq, overlapped>>

Labels == Curated \cup UserLabels

AnnotationLabel == [st : {"none", "live"}, author : Users \cup {None}, name : Words \cup {None}]

Annotation == [st : {"none", "live", "dead"}, label : Labels \cup {None},
               author : Users \cup {None}, by : Users \cup {None}]

LabelRequest == [op : {"idle", "annotate", "restore", "sync"}, by : Users \cup {None},
                 label : Labels \cup {None}, name : Words \cup {None}, ann : AnnotationIds \cup {None}]

IdleLabelReq == [op |-> "idle", by |-> None, label |-> None, name |-> None, ann |-> None]

\* Every row and request is one the program can hold; a row is curated or authored.
AnnotationsTypeOK ==
    /\ catalog \in [Curated -> Words \cup {None}]
    /\ deploys \in 0 .. MaxDeploys
    /\ convOpen \in BOOLEAN
    /\ label \in [Labels -> AnnotationLabel]
    /\ \A l \in Labels : label[l].st = "live" => (label[l].author = None) = (l \in Curated)
    /\ ann \in [AnnotationIds -> Annotation]
    /\ labelReq \in [Requests -> LabelRequest]
    /\ overlapped \in BOOLEAN

AnnotationsInit ==
    /\ catalog = [k \in Curated |-> None]
    /\ deploys = 0
    /\ convOpen = TRUE
    /\ label = [l \in Labels |-> [st |-> "none", author |-> None, name |-> None]]
    /\ ann = [a \in AnnotationIds |-> [st |-> "none", label |-> None, author |-> None, by |-> None]]
    /\ labelReq = [r \in Requests |-> IdleLabelReq]
    /\ overlapped = FALSE

----------------------------------------------------------------------------
(* The vocabulary.                                                         *)

LiveLabels == {l \in Labels : label[l].st = "live"}
Named(w) == {l \in LiveLabels : label[l].name = w}
SharedNamed(w) == {l \in Named(w) : label[l].author = None}
OwnNamed(u, w) == {l \in Named(w) : label[l].author = u}
First(S) == CHOOSE l \in S : \A k \in S : Rank[l] <= Rank[k]

\* Variant: the annotator's own row is looked up first.
FindOwnFirst(u, w) ==
    IF OwnNamed(u, w) # {} THEN First(OwnNamed(u, w))
    ELSE IF SharedNamed(w) # {} THEN First(SharedNamed(w)) ELSE None

\* The row a wording resolves to, None when it has to be made.
find_or_create_user_label(u, w) ==
    IF SharedNamed(w) # {} THEN First(SharedNamed(w))
    ELSE IF OwnNamed(u, w) # {} THEN First(OwnNamed(u, w)) ELSE None

\* Labels carried by the conversation's live annotations; empty once it is deleted.
labels_used_in_conversation ==
    IF convOpen THEN {ann[a].label : a \in {b \in AnnotationIds : ann[b].st = "live"}} ELSE {}

offered(u, l) == label[l].author = None \/ label[l].author = u \/ l \in labels_used_in_conversation

precedence(u, l) == IF label[l].author = None THEN 0 ELSE IF label[l].author = u THEN 1 ELSE 2

\* The picker: of the offered rows that share a wording, the best placed.
list_annotation_labels(u) ==
    {l \in LiveLabels : /\ offered(u, l)
                        /\ ~\E better \in Named(label[l].name) :
                             /\ offered(u, better)
                             /\ \/ precedence(u, better) < precedence(u, l)
                                \/ precedence(u, better) = precedence(u, l) /\ Rank[better] < Rank[l]}

\* A picked label: curated and own rows as they are, another's by its wording.
resolve_label(u, l) ==
    IF label[l].author \in {None, u} THEN l ELSE find_or_create_user_label(u, label[l].name)

----------------------------------------------------------------------------
(* Deployments.                                                            *)

\* A new version of the program ships another catalog, without two keys of one wording; the
\* sync of the version before has ended.
Deploy ==
    /\ deploys < MaxDeploys
    /\ \A r \in Requests : labelReq[r].op # "sync"
    /\ \E new \in [Curated -> Words \cup {None}] :
         /\ new # catalog
         /\ \A k, l \in Curated : k # l /\ new[k] # None => new[k] # new[l]
         /\ catalog' = new
    /\ deploys' = deploys + 1
    /\ UNCHANGED <<convOpen, label, ann, labelReq, overlapped>>

Shipped == {k \in Curated : catalog[k] # None}
Collisions == {l \in LiveLabels \ Shipped : \E k \in Shipped : catalog[k] = label[l].name}

\* Variant: the sync does not look for rows that already hold a wording.
SyncUnchecked(r) ==
    /\ labelReq[r].op = "idle" /\ Shipped # {}
    /\ labelReq' = [labelReq EXCEPT ![r] = [IdleLabelReq EXCEPT !.op = "sync"]]
    /\ UNCHANGED <<catalog, deploys, convOpen, label, ann, overlapped>>

sync_annotation_labels(r) ==
    /\ labelReq[r].op = "idle" /\ Shipped # {}
    /\ Collisions = {}
    /\ labelReq' = [labelReq EXCEPT ![r] = [IdleLabelReq EXCEPT !.op = "sync"]]
    /\ UNCHANGED <<catalog, deploys, convOpen, label, ann, overlapped>>

\* A label is about to be made; a sync has done its collision check.
MakingLabel == \E q \in Requests : labelReq[q].op = "annotate" /\ labelReq[q].label = None
Syncing == \E q \in Requests : labelReq[q].op = "sync"

\* The upsert by id rewords and revives the shipped rows.
SyncCommit(r) ==
    /\ labelReq[r].op = "sync"
    /\ label' = [l \in Labels |-> IF l \in Shipped
                                  THEN [st |-> "live", author |-> None, name |-> catalog[l]]
                                  ELSE label[l]]
    /\ overlapped' = (overlapped \/ MakingLabel)
    /\ labelReq' = [labelReq EXCEPT ![r] = IdleLabelReq]
    /\ UNCHANGED <<catalog, deploys, convOpen, ann>>

----------------------------------------------------------------------------
(* Annotating.                                                             *)

resolve_annotation_message == convOpen

Duplicates(u, l) == {a \in AnnotationIds : ann[a].st = "live" /\ ann[a].label = l /\ ann[a].author = u}

\* AnnotationCreate: exactly one of a label id and a text; the reads of the request.
Annotate(r, u, l, w) ==
    /\ labelReq[r].op = "idle" /\ resolve_annotation_message
    /\ labelReq' = [labelReq EXCEPT ![r] = [IdleLabelReq EXCEPT !.op = "annotate", !.by = u, !.label = l, !.name = w]]
    /\ UNCHANGED <<catalog, deploys, convOpen, label, ann, overlapped>>

create_annotation_by_text(r, u, w) == Annotate(r, u, find_or_create_user_label(u, w), w)

create_annotation_by_label(r, u, l) ==
    /\ l \in LiveLabels /\ offered(u, l)
    /\ Annotate(r, u, resolve_label(u, l), label[l].name)

\* The insert of the label, where the author's index turns a second one into the first,
\* and of the annotation, where an identical live one is returned instead.
create_annotation(r) ==
    LET u == labelReq[r].by
        w == labelReq[r].name
        made == labelReq[r].label = None /\ OwnNamed(u, w) = {}
    IN
    /\ labelReq[r].op = "annotate"
    /\ \E l \in Labels :
         /\ IF labelReq[r].label # None THEN l = labelReq[r].label
            ELSE IF made THEN l \in UserLabels /\ label[l].st = "none" ELSE l \in OwnNamed(u, w)
         /\ label' = IF made THEN [label EXCEPT ![l] = [st |-> "live", author |-> u, name |-> w]] ELSE label
         /\ IF Duplicates(u, l) # {} THEN ann' = ann
            ELSE \E a \in AnnotationIds :
                   /\ ann[a].st = "none"
                   /\ ann' = [ann EXCEPT ![a] = [st |-> "live", label |-> l, author |-> u, by |-> None]]
    /\ overlapped' = (overlapped \/ (made /\ Syncing))
    /\ labelReq' = [labelReq EXCEPT ![r] = IdleLabelReq]
    /\ UNCHANGED <<catalog, deploys, convOpen>>

RollbackAnnotation(r) ==
    /\ labelReq[r].op # "idle"
    /\ labelReq' = [labelReq EXCEPT ![r] = IdleLabelReq]
    /\ UNCHANGED <<catalog, deploys, convOpen, label, ann, overlapped>>

\* Any reader of the group sees an annotation; its author or a manager removes it.
get_annotation(a) == convOpen /\ ann[a].st = "live"
assert_may_delete_annotation(u, a) == u \in Managers \/ ann[a].author = u
soft_delete_annotation(a, u) == ann' = [ann EXCEPT ![a].st = "dead", ![a].by = u]

delete_annotation_endpoint(u, a) ==
    /\ get_annotation(a)
    /\ assert_may_delete_annotation(u, a)
    /\ soft_delete_annotation(a, u)
    /\ UNCHANGED <<catalog, deploys, convOpen, label, labelReq, overlapped>>

get_restorable_annotation(u, a) ==
    /\ convOpen /\ ann[a].st = "dead" /\ (u \in Managers \/ ann[a].by = u)
    /\ \A q \in Requests : labelReq[q].ann # a

restore_annotation_endpoint(r, u, a) ==
    /\ labelReq[r].op = "idle"
    /\ get_restorable_annotation(u, a)
    /\ labelReq' = [labelReq EXCEPT ![r] = [IdleLabelReq EXCEPT !.op = "restore", !.ann = a]]
    /\ UNCHANGED <<catalog, deploys, convOpen, label, ann, overlapped>>

\* restore_row: the index refuses a second live (message, label, author).
restore_annotation(r) ==
    /\ labelReq[r].op = "restore"
    /\ Duplicates(ann[labelReq[r].ann].author, ann[labelReq[r].ann].label) = {}
    /\ ann' = [ann EXCEPT ![labelReq[r].ann].st = "live", ![labelReq[r].ann].by = None]
    /\ labelReq' = [labelReq EXCEPT ![r] = IdleLabelReq]
    /\ UNCHANGED <<catalog, deploys, convOpen, label, overlapped>>

ToggleConvOpen ==
    /\ convOpen' = ~convOpen
    /\ UNCHANGED <<catalog, deploys, label, ann, labelReq, overlapped>>

AnnotationsNext ==
    \/ Deploy \/ ToggleConvOpen
    \/ \E r \in Requests : \/ sync_annotation_labels(r) \/ SyncCommit(r)
                           \/ create_annotation(r) \/ restore_annotation(r) \/ RollbackAnnotation(r)
    \/ \E r \in Requests, u \in Users : \/ \E w \in Words : create_annotation_by_text(r, u, w)
                                        \/ \E l \in Labels : create_annotation_by_label(r, u, l)
                                        \/ \E a \in AnnotationIds : restore_annotation_endpoint(r, u, a)
    \/ \E u \in Users, a \in AnnotationIds : delete_annotation_endpoint(u, a)

AnnotationsSpec == AnnotationsInit /\ [][AnnotationsNext]_annotationsVars

----------------------------------------------------------------------------
(* Properties.                                                             *)

\* Picking a label the picker lists and typing its wording annotate with the same row, for
\* every reader and even when a wording has come to be two rows (resolve_label and
\* find_or_create_user_label against list_annotation_labels).
PickEqualsType ==
    \A u \in Users : \A l \in list_annotation_labels(u) :
      /\ resolve_label(u, l) = find_or_create_user_label(u, label[l].name)
      /\ \A k \in list_annotation_labels(u) : label[k].name = label[l].name => k = l

\* A wording the catalog holds is one row, and one row per author otherwise, unless a sync
\* overlapped the creation of a label: the collision check and the order of
\* find_or_create_user_label's reads are all that keeps the two kinds apart.
OneRowPerWording ==
    \A k, l \in LiveLabels : k # l /\ label[k].name = label[l].name =>
      \/ overlapped
      \/ label[k].author # None /\ label[l].author # None /\ label[k].author # label[l].author

\* An annotator's live labels on the message carry distinct wordings, through deletes,
\* re-annotation, restores and rewordings of the catalog, short of an overlapped sync.
OneOpinionPerWording ==
    \A a, b \in AnnotationIds :
      a # b /\ ann[a].st = "live" /\ ann[b].st = "live" /\ ann[a].author = ann[b].author
        => overlapped \/ label[ann[a].label].name # label[ann[b].label].name

\* Counting rows counts opinions: a wording is one row of the catalog, and an annotator
\* holds it at most once, whatever is reworded, deleted, restored or typed again
\* (sync_annotation_labels, restore_annotation and the partial unique indexes).
WordingsCountOnce == OneRowPerWording /\ OneOpinionPerWording
=============================================================================
