------------------------------- MODULE TemplateStore -------------------------------
(***************************************************************************)
(* The tools that keep the templates of log lines: cluster_log_messages    *)
(* (tools/cluster-errors.js) and rename, delete and import of templates    *)
(* (tools/template-mgmt.js).  Each loads the store of the connection,      *)
(* works out the next one and saves it; the lock covers the save and not   *)
(* the load.  list_templates and export_templates, calls that are refused  *)
(* and readOnly clustering only load, and leave no trace.                  *)
(***************************************************************************)
EXTENDS StoreFile, Drain3
Sets == INSTANCE FiniteSetsExt

CONSTANTS Labels, NoLabel,  \* labels, and the model value for none
          StoreCalls,       \* the calls agents make
          StoreStarts,      \* what the file may be to begin with
          NoCall,           \* model value
          MaxCalls          \* bound: calls

\* An entry of store.templates, by id; first_seen, last_seen and sources_seen are
\* left out.
Entry == [id : Lines, tokens : Lines, label : Labels \union {NoLabel}, count : Nat]
TemplateStores == [buckets : Buckets, templates : SUBSET Entry]
EmptyStore == [buckets |-> NoBuckets, templates |-> {}]
StoreTools == {"cluster_log_messages", "rename_template", "delete_template", "import_templates"}
StoreCall  == [tool : StoreTools, lines : Seq(Lines), threshold : 0..10, maxChildren : Nat,
               id : Lines, label : Labels, templates : SUBSET Entry, replace : BOOLEAN]

ASSUME StoreCallsAssumption == StoreCalls \subseteq StoreCall /\ MaxCalls \in Nat
\* The file is one that these tools have left, or another version's.
ASSUME StoreStartsAssumption ==
  /\ StoreStarts \subseteq Stores \union {Foreign, Absent}
  /\ \A s \in StoreStarts \ {Foreign, Absent} : SoundBuckets(s.buckets)

VARIABLES
  call,    \* what a process is saving for
  raced,   \* history: the file has changed since the process loaded it
  calls    \* bound: calls made

storeVars == <<fileVars, call, raced, calls>>

TemplateTypeOK ==
  /\ FileTypeOK
  /\ call \in [Procs -> StoreCalls \union {NoCall}]
  /\ raced \in [Procs -> BOOLEAN]
  /\ calls \in 0..MaxCalls

-----------------------------------------------------------------------------
\* loadTemplateStore: a file that is not there, not whole, or of another version
\* counts as an empty store.
Understood(content) == IF content \in Stores THEN content ELSE EmptyStore
EntryOf(ts, id) == {t \in ts : t.id = id}
Ids(ts) == {t.id : t \in ts}

\* Mutant of Reinforced: the entry starts afresh.
ReinforcedAfresh(old, tokens, n) == [old EXCEPT !.tokens = tokens, !.count = n]
Reinforced(old, tokens, n) == [old EXCEPT !.tokens = tokens, !.count = old.count + n]
Tally(r, id) == Cardinality({i \in DOMAIN r.assigned : r.assigned[i] = id})
\* What the batch makes of the store; perTemplate holds the tallies.
Counted(ts, r) ==
  {t \in ts : t.id \notin DOMAIN r.touched}
  \union {Reinforced(t, r.touched[t.id], Tally(r, t.id)) : t \in {u \in ts : u.id \in DOMAIN r.touched}}
  \union {[id |-> i, tokens |-> r.touched[i], label |-> NoLabel, count |-> Tally(r, i)] :
          i \in DOMAIN r.touched \ Ids(ts)}
Clustered(op, s) == Cluster(s.buckets, op.lines, op.threshold, op.maxChildren)
\* Mutant of Imported: mode "merge" forgets what is there.
ImportedAlone(op, ts) == op.templates
\* An imported template takes the place of the one with its id.
Imported(op, ts) ==
  op.templates \union (IF op.replace THEN {} ELSE {t \in ts : t.id \notin Ids(op.templates)})
\* The store that a call saves.
NewStore(op, s) ==
  CASE op.tool = "cluster_log_messages" ->
         [buckets |-> Clustered(op, s).buckets, templates |-> Counted(s.templates, Clustered(op, s))]
    [] op.tool = "rename_template" ->
         [s EXCEPT !.templates = {IF t.id = op.id THEN [t EXCEPT !.label = op.label] ELSE t : t \in @}]
    [] op.tool = "delete_template"  -> [s EXCEPT !.templates = @ \ EntryOf(@, op.id)]
    [] op.tool = "import_templates" -> [s EXCEPT !.templates = Imported(op, @)]
\* Template "..." not found
Refused(op, s) == op.tool \in {"rename_template", "delete_template"} /\ op.id \notin Ids(s.templates)

\* Whatever store is loaded, what a call makes of it is a store that a load understands.
StoresClosed == \A op \in StoreCalls, s \in Stores \union {EmptyStore} : NewStore(op, s) \in Stores

\* A call loads, works the next store out and comes to the save, without an await.
Call(p, op) ==
  /\ calls < MaxCalls
  /\ ~Refused(op, Understood(file))
  /\ Save(p, NewStore(op, Understood(file)))
  /\ call' = [call EXCEPT ![p] = op]
  /\ raced' = [raced EXCEPT ![p] = FALSE]
  /\ calls' = calls + 1
\* An operation of p's save: the others have loaded what is not there any more.
Operation(p) ==
  /\ FileStep(p) \/ Crash(p)
  /\ call' = IF pc'[p] = "idle" THEN [call EXCEPT ![p] = NoCall] ELSE call
  /\ raced' = IF file' = file THEN raced
              ELSE [q \in Procs |-> raced[q] \/ (q # p /\ pc[q] # "idle")]
  /\ UNCHANGED calls
Age == LockAges /\ UNCHANGED <<call, raced, calls>>

TemplateInit ==
  /\ file \in StoreStarts /\ NoSaves
  /\ call = [p \in Procs |-> NoCall]
  /\ raced = [p \in Procs |-> FALSE]
  /\ calls = 0
TemplateNext ==
  \/ \E p \in Procs : (\E op \in StoreCalls : Call(p, op)) \/ Operation(p)
  \/ Age
\* A process that is in a save runs on.
Running(p) == FileStep(p) /\ Operation(p)
TemplateSpec ==
  TemplateInit /\ [][TemplateNext]_storeVars /\ \A p \in Procs : WF_storeVars(Running(p))

-----------------------------------------------------------------------------
\* No call waits for another: it comes to its end whoever holds the lock, and dies
\* with its process at worst (template-store.js:47-66).
CallsReturn == \A p \in Procs : pc[p] # "idle" ~> pc[p] = "idle"

\* In a store that is saved the templates of a bucket have different ids, and each
\* still covers the line that its id was made from, however often it has been
\* relaxed, evicted and learnt again (drain3.js:7-26, 51-100).
IdsStable == \A s \in {mem[p] : p \in Procs} \ {NoStore} : SoundBuckets(s.buckets)

\* The process p loads the store for op and comes to its save.
Begins(p, op) == pc[p] = "idle" /\ pc'[p] = "acquire" /\ call'[p] = op

\* A line is reported under a template that covers it, relaxed by later lines as it
\* may be, unless the template was evicted in the same batch
\* (drain3.js:51-100, cluster-errors.js:99-166).
ClustersCover ==
  [][\A p \in Procs, op \in StoreCalls :
       Begins(p, op) /\ op.tool = "cluster_log_messages" =>
         LET r == Clustered(op, Understood(file))
         IN \A i \in DOMAIN r.assigned :
              \/ r.assigned[i] \in r.evicted
              \/ Covers(r.touched[r.assigned[i]], op.lines[i])]_storeVars

\* The store that p has saved takes the place of the very one p had loaded.
SavesUnraced(p) == pc[p] = "rename" /\ pc'[p] = "release" /\ ~raced[p] /\ ~stolen
Entries(content) == Understood(content).templates
\* A save on top of the store that was loaded loses nothing that it was not asked to:
\* an entry goes by delete_template, a replacing import or an import of its id alone,
\* its label changes by rename_template or such an import, and its count never
\* falls (cluster-errors.js:112-151, template-mgmt.js:46-125).
KeptUnlessRaced ==
  [][\A p \in Procs : SavesUnraced(p) =>
       \A t \in Entries(file) :
         LET op    == call[p]
             gone  == \/ op.tool = "import_templates" /\ (op.replace \/ t.id \in Ids(op.templates))
                      \/ op.tool = "delete_template" /\ t.id = op.id
             named == op.tool = "rename_template" /\ t.id = op.id
         IN gone \/ \E n \in EntryOf(Entries(file'), t.id) :
                      n.count >= t.count /\ (named \/ n.label = t.label)]_storeVars

\* A clustering that is saved on top of the store it loaded has counted each of its
\* lines once, those of a template included that was evicted, deleted before, or
\* learnt twice (cluster-errors.js:104-149).
Total(ts) == Sets!MapThenSumSet(LAMBDA t : t.count, ts)
EveryLineCounted ==
  [][\A p \in Procs : SavesUnraced(p) /\ call[p].tool = "cluster_log_messages" =>
       Total(Entries(file')) = Total(Entries(file)) + Len(call[p].lines)]_storeVars
=============================================================================
