------------------------- MODULE CorporateWorkflow -------------------------
(***************************************************************************)
(* From two sources to the stored actions: a reconciliation, its report,   *)
(* the owner's signatures and the ingest of what was signed.               *)
(***************************************************************************)
EXTENDS Reconcile, CorporateActions

-----------------------------------------------------------------------------
(***************************************************************************)
(* The command that reconciles a charter's corporate actions (packages/    *)
(* core/src/ingest/reconcile-corporate-actions.ts).  The answers of the    *)
(* issuers are given: their records, or a refusal to read them.            *)
(*                                                                         *)
(* A request is [out, report, owner, curated, structural]: the paths it    *)
(* writes, the fund files as a sequence of [entity, content, reads,        *)
(* records], the rows of the curated file and the structural entries.      *)
(***************************************************************************)

(* The newest row of each action the vendor reported for an entity in      *)
(* scope, quarantined or not.                                              *)
VendorRows(rows, entities) ==
  {r \in rows : r.vendor /\ r.entity \in entities /\ r.kind \in {"CASH_DIVIDEND", "SPLIT"}}

Newest(rows) == {r \in rows : \A o \in rows : KeyOf(o) = KeyOf(r) => o.id <= r.id}

VendorRecords(rows, entities, source) ==
  {[source |-> source, entity |-> r.entity, kind |-> r.kind, date |-> r.date, value |-> r.value,
    pay |-> r.pay, announced |-> Absent] : r \in Newest(VendorRows(rows, entities))}

Revised(rows, entities) ==
  {KeyOf(r) : r \in {x \in VendorRows(rows, entities) :
     \E o \in VendorRows(rows, entities) : KeyOf(o) = KeyOf(x) /\ o.value # x.value}}

(* The windows of a charter, with what a decision on their first day reads.*)
WarmedUp(windows, warmup) == {<<w[1] - 1 - warmup, w[2]>> : w \in windows}

(* The owner's files are stored one by one, up to the first that refuses.  *)
OwnerReads(owner, entities) == \A i \in DOMAIN owner : owner[i].entity \in entities /\ owner[i].reads

OwnerArtifacts(owner, entities) ==
  {owner[i].content : i \in {j \in DOMAIN owner :
     owner[j].entity \in entities /\ \A k \in 1..(j - 1) : owner[k].entity \in entities /\ owner[k].reads}}

OwnerRecords(owner) == UNION {owner[i].records : i \in DOMAIN owner}

(* What the run reads, and what stops it before anything is written.       *)
AllRecords(req, rows, opts, vendor, issuer) ==
  OwnerRecords(req.owner) \cup ParseCuratedActions(req.curated).records
  \cup VendorRecords(rows, opts.entities, vendor) \cup issuer

RunAccepted(req, disk, rows, opts, vendor, issuer) ==
  /\ {req.out, req.report} \cap disk = {}
  /\ OwnerReads(req.owner, opts.entities)
  /\ BadLines(req.curated) = {} /\ StructuralReads(req.structural)
  /\ VendorRecords(rows, opts.entities, vendor) # {}
  /\ ReconcileAccepted(AllRecords(req, rows, opts, vendor, issuer), req.structural, opts)

(* The file, the report and the event, in this order; no observation. A    *)
(* refused run has stored what the owner gave it and writes nothing.       *)
RunReconcile(req, disk, rows, opts, vendor, issuer) ==
  LET records == AllRecords(req, rows, opts, vendor, issuer)
      report == Report(records, req.structural, opts)
      file == ReconciledFile(records, req.structural, opts)
      stored == IF {req.out, req.report} \cap disk = {} THEN OwnerArtifacts(req.owner, opts.entities) ELSE {}
  IN IF RunAccepted(req, disk, rows, opts, vendor, issuer)
     THEN [writes |-> <<req.out, req.report, "corporate_actions.reconciled">>, stored |-> stored, file |-> {file},
           toCurate |-> {f \in report.oneSided : f.written[1] = vendor}]
     ELSE [writes |-> <<>>, stored |-> stored, file |-> {}, toCurate |-> {}]

-----------------------------------------------------------------------------
(***************************************************************************)
(* The life of a reconciled file (packages/core/src/ingest/reconcile-      *)
(* corporate-actions.ts, data/adapters/corporate-actions.ts): the vendor's *)
(* rows grow, the owner curates and runs the reconciliation, edits and     *)
(* signs its output, and ingests it; what is read then is deduplicated.    *)
(***************************************************************************)

CONSTANTS VendorRowSet,     \* the rows the vendor can report, by ingest
          IssuerSets,       \* the records the issuer can answer with
          CuratedSet,       \* the rows of the curated file
          StructuralSet,    \* the curated structural entries
          OwnerSet,         \* the fund files
          Options,          \* the scope of the charter
          Vendor, Now,
          MaxRuns, MaxEdits \* bounds on runs and edits

(* What the adapters and the parsers of the owner's files hand over.       *)
ActionKinds ==
  {"CASH_DIVIDEND", "SPLIT", "SPINOFF", "MERGER", "DELISTING", "SYMBOL_CHANGE", "STALE_BAR", "CORRECTED_BAR"}

VendorRow ==
  [vendor : BOOLEAN, id : Int, entity : Int, kind : ActionKinds, date : Int, value : Int, pay : Int]

Record ==
  [source : Int, entity : Int, kind : {"CASH_DIVIDEND", "SPLIT"}, date : Int, value : Int, pay : Int, announced : Int]

CuratedRow ==
  [line : Int, width : Int, source : Int, entity : Int, kind : STRING, date : Int, value : Int, pay : Int, document : Int]

Action ==
  [kind : ActionKinds, entity : Int, date : Int, value : Int, pay : Int, stock : Int, unread : SUBSET STRING]

StructuralEntry ==
  [action : Action, sources : SUBSET Int, announced : Int,
   supersedes : SUBSET [source : Int, kind : STRING, date : Int], keeps : SUBSET [source : Int, kind : STRING, date : Int]]

FundFile == [entity : Int, content : STRING, reads : BOOLEAN, records : SUBSET Record]

ASSUME SourcesAssumption ==
  /\ VendorRowSet \subseteq VendorRow /\ Vendor \in Int
  /\ \A i \in IssuerSets : i \subseteq Record /\ IsFiniteSet(i)
  /\ CuratedSet \subseteq Seq(CuratedRow)
  /\ StructuralSet \subseteq Seq(StructuralEntry)
  /\ OwnerSet \subseteq Seq(FundFile) /\ \A o \in OwnerSet : IsFiniteSet(OwnerRecords(o))

ASSUME OptionsAssumption ==
  /\ Options.preferred \in Seq(Int)
  /\ Options.tolerance \in Nat

VARIABLES rows,      \* the vendor's rows of this store
          issuer,    \* what the issuer publishes
          disk,      \* the paths that exist
          made,      \* the runs that wrote a file: what went in and came out
          editor,    \* the file as it is now, at most one
          signed,    \* the contents the owner has signed
          stored,    \* the rows an ingest has stored
          runs, edits

vars == <<rows, issuer, disk, made, editor, signed, stored, runs, edits>>

Init ==
  /\ rows = {} /\ issuer \in IssuerSets /\ disk = {} /\ made = {} /\ editor = {} /\ signed = {} /\ stored = {}
  /\ runs = 0 /\ edits = 0

(* A vendor ingest adds a row, a revision of an older one too.             *)
VendorIngest ==
  /\ runs = 0
  /\ \E r \in VendorRowSet : r \notin rows /\ rows' = rows \cup {r}
  /\ UNCHANGED <<issuer, disk, made, editor, signed, stored, runs, edits>>

(* The owner runs the command with what has been curated by then.          *)
Run ==
  /\ runs < MaxRuns /\ runs' = runs + 1
  /\ \E c \in CuratedSet, s \in StructuralSet, o \in OwnerSet :
       LET req == [out |-> <<"out", runs>>, report |-> <<"report", runs>>, owner |-> o, curated |-> c, structural |-> s]
           done == RunReconcile(req, disk, rows, Options, Vendor, issuer)
       IN IF done.file = {} THEN UNCHANGED <<disk, made, editor>>
          ELSE /\ disk' = disk \cup {done.writes[1], done.writes[2]}
               /\ editor' = done.file
               /\ made' = {[records |-> AllRecords(req, rows, Options, Vendor, issuer), structural |-> s,
                            file |-> CHOOSE f \in done.file : TRUE]}
  /\ UNCHANGED <<rows, issuer, signed, stored, edits>>

(* The owner changes a value by hand, or fills the approval in.            *)
Edit ==
  /\ edits < MaxEdits /\ edits' = edits + 1
  /\ \E f \in editor : \E i \in DOMAIN f.actions : editor' = {[f EXCEPT !.actions[i].action.value = @ + 1]}
  /\ UNCHANGED <<rows, issuer, disk, made, signed, stored, runs>>

Sign ==
  /\ \E f \in editor, at \in {Now, Now + 1} :
       /\ ~f.signed
       /\ editor' = {[f EXCEPT !.signed = TRUE, !.approvedAt = at]}
       /\ signed' = signed \cup {f.hash}
  /\ UNCHANGED <<rows, issuer, disk, made, stored, runs, edits>>

Ingest ==
  /\ \E f \in editor : stored' = stored \cup ParseCorporateActions(f, Now)
  /\ UNCHANGED <<rows, issuer, disk, made, editor, signed, runs, edits>>

Next == VendorIngest \/ Run \/ Edit \/ Sign \/ Ingest

Spec == Init /\ [][Next]_vars

-----------------------------------------------------------------------------

(* Nothing is stored that no owner signed: an edit after the signature is  *)
(* refused by the hash, and a file is stored whole or not at all.          *)
StoredWasSigned ==
  \A o \in stored : \E c \in signed : \E i \in DOMAIN c : c[i].action = o.value

(* A record in scope is never dropped: it is in the file, under its key,   *)
(* or a structural entry of the curator replaces it by name.               *)
NothingDropped ==
  \A m \in made : \A r \in InWindow(m.records, Options) :
    \/ \E i \in DOMAIN m.file.actions : KeyOf(m.file.actions[i].action) = KeyOf(r)
    \/ RecordId(r) \in SupersededIds(m.structural, Options)

(* What the reconciliation writes, the ingest can read: a signature is     *)
(* never spent on a file that is then refused.                             *)
ReconciledIsIngestable == \A m \in made : Parsable(m.file.actions)

(* Two sources on an entry are two publishers whose own records give the   *)
(* value that is written, within the tolerance for a dividend.             *)
TwoSourcesAgree ==
  \A m \in made : \A i \in DOMAIN m.file.actions :
    LET e == m.file.actions[i]
    IN e.action.kind \in {"CASH_DIVIDEND", "SPLIT"} =>
         \A s \in e.sources : \E r \in m.records :
           /\ r.source = s /\ KeyOf(r) = KeyOf(e.action)
           /\ r.value - e.action.value \in (-Options.tolerance)..Options.tolerance
           /\ r.kind = "SPLIT" => r.value = e.action.value

=============================================================================
