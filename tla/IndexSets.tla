-------------------------------- MODULE IndexSets --------------------------------
(***************************************************************************)
(* The index-set tools (tools/index-sets: create, update, delete,          *)
(* cycle_deflector, set_default) and await_system_job                      *)
(* (tools/_shared/system-job.js), which waits for the clean-up job that a  *)
(* deletion with deleteIndices:true leaves to the server.                  *)
(*                                                                         *)
(* An update reads the index set and writes all of it back.  A deletion    *)
(* with its data is confirmed with the hash of the index names and the     *)
(* message count that build() read; apply() reads nothing again.           *)
(***************************************************************************)
EXTENDS MutatingTool, Sequences

CONSTANTS SetIds,       \* index sets, by the prefix of their indices
          IndexNames, JobIds, Titles, Configs,
          NoSet, NoJob, \* model values: there is no such set, no such job yet
          MaxDocs,      \* bound: the messages in an index set
          SetOps,       \* the arguments agents call the tools with
          SetStarts,    \* what the server may hold to begin with
          Backoff,      \* BACKOFF_SCHEDULE, in units of time
          MaxLate,      \* bound: how late a timer or an answer is, in the same units
          Touched,      \* bound: the index sets that other users and ingestion change,
          MaxSetEdits   \* and how often

RotationAliases  == {"time-based", "size-based", "message-count"}
RetentionAliases == {"delete", "close"}
\* A strategy is its class and the config, which has a type of its own.
Blocks(Aliases) == [class : Aliases, type : Aliases, config : Configs]
SetDoc == [title : Titles, prefix : SetIds, writable : BOOLEAN, canBeDefault : BOOLEAN,
           rotation : Blocks(RotationAliases), retention : Blocks(RetentionAliases)]
SetTools == {"create_index_set", "update_index_set", "delete_index_set",
             "cycle_deflector", "set_default_index_set", "await_system_job"}
\* A strategy argument: alias and config come together.  Sets are {} when omitted;
\* job is {} for await_system_job by info_substring, which is then the id in set.
Strategies(Aliases) == [alias : Aliases, config : Configs]
SetOp == [tool : SetTools, set : SetIds, title : SUBSET Titles, writable : SUBSET BOOLEAN,
          rotation : SUBSET Strategies(RotationAliases),
          retention : SUBSET Strategies(RetentionAliases \union {"archive"}),
          deleteIndices : BOOLEAN, job : SUBSET JobIds, timeout : Nat]
\* computeC1Hash({indexSetId, deleteIndices: true, indexNames, messageCount})
SetToken == [set : SetIds, names : SUBSET IndexNames, count : 0..MaxDocs]
SetRead  == [doc : SetDoc, names : SUBSET IndexNames, count : 0..MaxDocs, listed : BOOLEAN]
Wait     == [job : JobIds, round : 0..Len(Backoff), left : Nat]
\* The states in which a job goes no further; a job that the server lists no more has
\* been pruned after it was complete, or lost.  atFull: percent_complete is 100, which
\* the server reports beside the status.
Stopped  == {"paused", "error", "cancelled"}
Unlisted == {"pruned", "lost"}
Job      == [about : SetIds, status : {"running", "complete"} \union Stopped \union Unlisted, atFull : BOOLEAN]
SetStart == [sets : [SetIds -> SetDoc \union {NoSet}], default : SetIds,
             stored : [SetIds -> SUBSET IndexNames], docs : [SetIds -> 0..MaxDocs]]

ASSUME NothingsAssumption == NoSet \notin SetDoc /\ NoJob \notin Job
ASSUME SetOpsAssumption ==
  /\ SetOps \subseteq SetOp
  /\ \A op \in SetOps :
       /\ AtMostOne(op.title) /\ AtMostOne(op.writable) /\ AtMostOne(op.job)
       /\ AtMostOne(op.rotation) /\ AtMostOne(op.retention)
       /\ op.deleteIndices => op.tool = "delete_index_set"
       /\ op.tool = "create_index_set" =>
            op.title # {} /\ op.writable # {} /\ op.rotation # {} /\ op.retention # {}
       /\ op.tool = "await_system_job" => op.timeout > 0
ASSUME BackoffAssumption == Backoff \in Seq(Nat \ {0}) /\ Backoff # <<>>
ASSUME SetStartsAssumption == SetStarts \subseteq SetStart
ASSUME SetBoundsAssumption == Touched \subseteq SetIds /\ MaxDocs \in Nat /\ MaxLate \in Nat /\ MaxSetEdits \in Nat

VARIABLES
  sets,        \* the index sets: their configuration
  default,     \* the default index set
  stored,      \* the Elasticsearch indices of each index set
  docs,        \* the messages in them
  jobs,        \* system jobs
  setDrift,    \* history: the fields of a call's index set that changed since it read them
  setEdits     \* bound: changes made by other users and by ingestion

setWorld == <<sets, default, stored, docs, jobs, setDrift, setEdits>>
setVars  == <<callVars, setWorld>>

SetFields == {"title", "prefix", "writable", "canBeDefault", "rotation", "retention"}
SetLabels == {"list_sets", "get_set", "list_indices", "get_stats", "post_set", "put_set",
              "delete_set", "delete_data", "post_cycle", "put_default", "await", "get_jobs", "poll"}

IndexTypeOK ==
  /\ CallsTypeOK(SetLabels, Request(SetOps, SetToken), SetRead \union Wait, SetToken)
  /\ sets \in [SetIds -> SetDoc \union {NoSet}]
  /\ default \in SetIds
  /\ stored \in [SetIds -> SUBSET IndexNames]
  /\ docs \in [SetIds -> 0..MaxDocs]
  /\ jobs \in [JobIds -> Job \union {NoJob}]
  /\ setDrift \in [Slots -> SUBSET (SetFields \union {"data"})]
  /\ setEdits \in 0..MaxSetEdits
  /\ \A c \in Slots : pc[c] \in {"list_indices", "get_stats", "put_set", "delete_data"} => got[c] \in SetRead
  /\ \A c \in Slots : pc[c] = "poll" => got[c] \in Wait

SetWorldInit ==
  /\ \E s \in SetStarts : sets = s.sets /\ default = s.default /\ stored = s.stored /\ docs = s.docs
  /\ jobs = [j \in JobIds |-> NoJob]
  /\ setDrift = [c \in Slots |-> {}]
  /\ setEdits = 0
IndexInit == CallsInit /\ SetWorldInit

-----------------------------------------------------------------------------
Only(S) == CHOOSE x \in S : TRUE
\* buildRotationBlock, buildRetentionBlock
Block(strategy) == [class |-> strategy.alias, type |-> strategy.alias, config |-> strategy.config]
\* aliasToConfigOrError refuses the alias "archive".
BadAlias(op) == \E s \in op.retention : s.alias = "archive"

\* Mutant of MergedSet: the title that is not given is reset to some other.
MergedTitle(current, op) ==
  [current EXCEPT !.title = Only(IF op.title # {} THEN op.title ELSE Titles \ {current.title})]
\* update_index_set's mergedBody: c.x ?? current.x
MergedSet(current, op) ==
  [title        |-> IF op.title # {} THEN Only(op.title) ELSE current.title,
   prefix       |-> current.prefix,
   writable     |-> IF op.writable # {} THEN Only(op.writable) ELSE current.writable,
   canBeDefault |-> current.canBeDefault,
   rotation     |-> IF op.rotation # {} THEN Block(Only(op.rotation)) ELSE current.rotation,
   retention    |-> IF op.retention # {} THEN Block(Only(op.retention)) ELSE current.retention]
\* The fields the arguments name.
NamedFields(op) ==
  {f \in {"title", "writable", "rotation", "retention"} : op[f] # {}}
\* create_index_set's wireBody; the server finds it fit to be the default.
NewSet(op) ==
  [title |-> Only(op.title), prefix |-> op.set, writable |-> Only(op.writable), canBeDefault |-> TRUE,
   rotation |-> Block(Only(op.rotation)), retention |-> Block(Only(op.retention))]

\* The index sets become ss: the fields that change under a call that has read them.
FieldsThatDiffer(a, b) ==
  IF a = NoSet \/ b = NoSet THEN SetFields ELSE {f \in SetFields : a[f] # b[f]}
SetsDrift(ss) ==
  [c \in Slots |-> IF pc[c] \in {"list_indices", "get_stats", "put_set", "delete_data"}
                   THEN setDrift[c] \union (IF ss[req[c].op.set] = sets[req[c].op.set] THEN {}
                                            ELSE FieldsThatDiffer(ss[req[c].op.set], sets[req[c].op.set]))
                   ELSE setDrift[c]]
\* The data of index set s changes.
DataDrift(s) ==
  [c \in Slots |-> IF pc[c] \in {"get_stats", "delete_data"} /\ req[c].op.set = s
                   THEN setDrift[c] \union {"data"} ELSE setDrift[c]]
Undrift(c, d) == [d EXCEPT ![c] = {}]
SetsUnchanged == UNCHANGED <<sets, default, stored, docs, jobs, setDrift, setEdits>>
Returned(c, how) ==
  /\ Finish(c, how)
  /\ setDrift' = Undrift(c, setDrift)
  /\ UNCHANGED <<sets, default, stored, docs, jobs, setEdits>>

-----------------------------------------------------------------------------
FirstRequest(op) ==
  CASE op.tool = "create_index_set" -> "list_sets"
    [] op.tool = "await_system_job" -> "await"
    [] OTHER                        -> "get_set"
SetBegin(c) == \E op \in SetOps : Begin(c, op, FirstRequest(op)) /\ SetsUnchanged

\* create_index_set's build(); existingMatches refuses nothing.
ListSets(c) ==
  /\ pc[c] = "list_sets"
  /\ \/ BadAlias(req[c].op) /\ Finish(c, "refused")
     \/ ~BadAlias(req[c].op) /\ Gate(c, {}, "post_set", NothingGot)
  /\ SetsUnchanged

\* Why build() refuses the index set it has read.
Unfit(s, op) ==
  CASE op.tool = "update_index_set"      -> (s = default /\ FALSE \in op.writable) \/ BadAlias(op)
    [] op.tool = "delete_index_set"      -> s = default
    [] op.tool = "cycle_deflector"       -> ~sets[s].writable
    [] op.tool = "set_default_index_set" -> ~sets[s].canBeDefault
WriteOf(op) ==
  CASE op.tool = "update_index_set"      -> "put_set"
    [] op.tool = "delete_index_set"      -> "delete_set"
    [] op.tool = "cycle_deflector"       -> "post_cycle"
    [] op.tool = "set_default_index_set" -> "put_default"
ReadOf(s) == [doc |-> sets[s], names |-> {}, count |-> 0, listed |-> FALSE]

\* The GET each of the other tools starts with, and what build() does with it.
GetSet(c) ==
  /\ pc[c] = "get_set"
  /\ LET op == req[c].op
         s  == op.set
     IN \/ sets[s] = NoSet /\ Finish(c, "refused")
        \/ sets[s] # NoSet /\ Unfit(s, op) /\ Finish(c, "refused")
        \/ /\ sets[s] # NoSet /\ ~Unfit(s, op)
           /\ \/ op.deleteIndices /\ Continue(c, "list_indices", ReadOf(s))
              \/ ~op.deleteIndices /\ Gate(c, {}, WriteOf(op), ReadOf(s))
  /\ SetsUnchanged
\* The names of the indices; when the request fails, none.
ListIndices(c) ==
  /\ pc[c] = "list_indices"
  /\ \/ Continue(c, "get_stats", [got[c] EXCEPT !.names = stored[req[c].op.set], !.listed = TRUE])
     \/ Continue(c, "get_stats", got[c])
  /\ SetsUnchanged
\* Mutant of C1Hash: the message count is not in the hash.
C1HashOfNames(s, names, count) == [set |-> s, names |-> names, count |-> 0]
C1Hash(s, names, count) == [set |-> s, names |-> names, count |-> count]
\* The message count, and the token; without the count there is none.
GetStats(c) ==
  /\ pc[c] = "get_stats" /\ sets[req[c].op.set] # NoSet
  /\ LET s == req[c].op.set
     IN Gate(c, {C1Hash(s, got[c].names, docs[s])}, "delete_data", [got[c] EXCEPT !.count = docs[s]])
  /\ setDrift' = IF pc'[c] = "delete_data" THEN setDrift ELSE Undrift(c, setDrift)
  /\ UNCHANGED <<sets, default, stored, docs, jobs, setEdits>>
SetReadFails(c) ==
  /\ pc[c] \in {"list_sets", "get_set", "get_stats", "get_jobs"}
  /\ Returned(c, "refused")

-----------------------------------------------------------------------------
\* A write that the server carries out, and whose answer may be lost.
Carried(c, ss) ==
  /\ sets' = ss
  /\ setDrift' = Undrift(c, SetsDrift(ss))
  /\ \E how \in {"done", "failed"} : Finish(c, how)
  /\ UNCHANGED setEdits
\* A set never takes the place of one whose data is being removed.
PostSet(c) ==
  /\ pc[c] = "post_set" /\ sets[req[c].op.set] = NoSet
  /\ \A j \in JobIds : jobs[j] # NoJob => jobs[j].about # req[c].op.set
  /\ Carried(c, [sets EXCEPT ![req[c].op.set] = NewSet(req[c].op)])
  /\ UNCHANGED <<default, stored, docs, jobs>>
\* The server keeps the default index set writable.
PutSet(c) ==
  LET s == req[c].op.set
      d == MergedSet(got[c].doc, req[c].op)
  IN /\ pc[c] = "put_set" /\ sets[s] # NoSet
     /\ s = default => d.writable
     /\ Carried(c, [sets EXCEPT ![s] = d])
     /\ UNCHANGED <<default, stored, docs, jobs>>
\* delete_indices=false: the indices stay in Elasticsearch.
DeleteSet(c) ==
  LET s == req[c].op.set
  IN /\ pc[c] = "delete_set" /\ sets[s] # NoSet /\ s # default
     /\ Carried(c, [sets EXCEPT ![s] = NoSet])
     /\ UNCHANGED <<default, stored, docs, jobs>>
\* delete_indices=true: a clean-up job is to remove them.
DeleteData(c) ==
  LET s == req[c].op.set
  IN /\ pc[c] = "delete_data" /\ sets[s] # NoSet /\ s # default
     /\ \E j \in JobIds :
          /\ jobs[j] = NoJob
          /\ jobs' = [jobs EXCEPT ![j] = [about |-> s, status |-> "running", atFull |-> FALSE]]
     /\ Carried(c, [sets EXCEPT ![s] = NoSet])
     /\ UNCHANGED <<default, stored, docs>>
\* The active index is closed and a new one opened.
Cycle(c) ==
  LET s == req[c].op.set
  IN /\ pc[c] = "post_cycle" /\ sets[s] # NoSet /\ sets[s].writable
     /\ \E i \in IndexNames \ stored[s] : stored' = [stored EXCEPT ![s] = @ \union {i}]
     /\ setDrift' = Undrift(c, DataDrift(s))
     /\ \E how \in {"done", "failed"} : Finish(c, how)
     /\ UNCHANGED <<sets, default, docs, jobs, setEdits>>
PutDefault(c) ==
  LET s == req[c].op.set
  IN /\ pc[c] = "put_default" /\ sets[s] # NoSet /\ sets[s].canBeDefault /\ sets[s].writable
     /\ default' = s
     /\ Carried(c, sets)
     /\ UNCHANGED <<stored, docs, jobs>>
SetWriteFails(c) ==
  /\ pc[c] \in {"post_set", "put_set", "delete_set", "delete_data", "post_cycle", "put_default"}
  /\ Returned(c, "failed")

-----------------------------------------------------------------------------
\* await_system_job: the dry run asks the server nothing.
Await(c) ==
  /\ pc[c] = "await"
  /\ LET op == req[c].op
     IN \/ req[c].dryRun /\ Finish(c, "done")
        \/ ~req[c].dryRun /\ op.job = {} /\ Continue(c, "get_jobs", NothingGot)
        \/ /\ ~req[c].dryRun /\ op.job # {}
           /\ Continue(c, "poll", [job |-> Only(op.job), round |-> 0, left |-> op.timeout])
  /\ SetsUnchanged
Listed(j) == jobs[j] # NoJob /\ jobs[j].status \notin Unlisted
\* resolveJobIdFromInfo: one listed job is about the index set, or the call is refused.
GetJobs(c) ==
  /\ pc[c] = "get_jobs"
  /\ LET matches == {j \in JobIds : Listed(j) /\ jobs[j].about = req[c].op.set}
     IN \/ Cardinality(matches) # 1 /\ Finish(c, "refused")
        \/ /\ Cardinality(matches) = 1
           /\ Continue(c, "poll", [job |-> Only(matches), round |-> 0, left |-> req[c].op.timeout])
  /\ SetsUnchanged
Smaller(a, b) == IF a <= b THEN a ELSE b
\* The sleep before the next poll: BACKOFF_SCHEDULE[min(i, 4)], and no longer than is left.
Delay(w) == Smaller(Backoff[Smaller(w.round + 1, Len(Backoff))], w.left)
Slept(w, late) ==
  [job |-> w.job, round |-> Smaller(w.round + 1, Len(Backoff)),
   left |-> IF Delay(w) + late >= w.left THEN 0 ELSE w.left - Delay(w) - late]
\* Mutant of Finished: a job that went wrong counts as one that went well.
FinishedAnyhow(j) == Listed(j) => jobs[j].status # "running" \/ jobs[j].atFull
\* completed: true: complete, or at 100 percent whatever the status, or answered by a 404
Finished(j) == Listed(j) => jobs[j].status = "complete" \/ jobs[j].atFull
\* One round: the sleep, the poll, and the look at the deadline.
Poll(c) ==
  /\ pc[c] = "poll"
  /\ LET j == got[c].job
     IN \E late \in 0..MaxLate :
          LET w == Slept(got[c], late)
          IN \/ Finished(j) /\ Finish(c, "done")
             \/ ~Finished(j) /\ jobs[j].status \in Stopped /\ Finish(c, "failed")   \* completed: false
             \/ ~Finished(j) /\ jobs[j].status = "running" /\ w.left > 0 /\ Continue(c, "poll", w)
             \/ ~Finished(j) /\ jobs[j].status = "running" /\ w.left = 0 /\ Finish(c, "failed")  \* timedOut
  /\ SetsUnchanged
PollFails(c) == pc[c] = "poll" /\ Returned(c, "failed")

\* The server's clean-up job removes indices, and reports 100 percent before it has
\* ended, with some of them left perhaps.
JobAdvances(j) ==
  /\ jobs[j] # NoJob /\ jobs[j].status = "running" /\ ~jobs[j].atFull
  /\ jobs' = [jobs EXCEPT ![j].atFull = TRUE]
  /\ \E left \in SUBSET stored[jobs[j].about] : stored' = [stored EXCEPT ![jobs[j].about] = left]
  /\ UNCHANGED <<callVars, sets, default, docs, setDrift, setEdits>>
\* It has removed them all, or stops as it is.
JobEnds(j) ==
  /\ jobs[j] # NoJob /\ jobs[j].status = "running"
  /\ \/ /\ jobs' = [jobs EXCEPT ![j] = [about |-> jobs[j].about, status |-> "complete", atFull |-> TRUE]]
        /\ stored' = [stored EXCEPT ![jobs[j].about] = {}]
     \/ /\ \E how \in Stopped : jobs' = [jobs EXCEPT ![j].status = how]
        /\ UNCHANGED stored
  /\ UNCHANGED <<callVars, sets, default, docs, setDrift, setEdits>>
\* The server lists it no more: it has ended, or its node has.
JobUnlisted(j) ==
  /\ Listed(j)
  /\ jobs' = [jobs EXCEPT ![j].status = IF jobs[j].status = "complete" THEN "pruned" ELSE "lost"]
  /\ UNCHANGED <<callVars, sets, default, stored, docs, setDrift, setEdits>>
\* Messages arrive; another user renames an index set.
Ingest(s) ==
  /\ setEdits < MaxSetEdits /\ sets[s] # NoSet /\ docs[s] < MaxDocs
  /\ docs' = [docs EXCEPT ![s] = @ + 1]
  /\ setDrift' = DataDrift(s)
  /\ setEdits' = setEdits + 1
  /\ UNCHANGED <<callVars, sets, default, stored, jobs>>
RenameSet(s) ==
  /\ setEdits < MaxSetEdits /\ sets[s] # NoSet
  /\ \E t \in Titles \ {sets[s].title} :
       LET ss == [sets EXCEPT ![s].title = t] IN sets' = ss /\ setDrift' = SetsDrift(ss)
  /\ setEdits' = setEdits + 1
  /\ UNCHANGED <<callVars, default, stored, docs, jobs>>

SetWrite(c) == PostSet(c) \/ PutSet(c) \/ DeleteSet(c) \/ DeleteData(c) \/ Cycle(c) \/ PutDefault(c)
SetStep(c) ==
  \/ SetBegin(c) \/ ListSets(c) \/ GetSet(c) \/ ListIndices(c) \/ GetStats(c) \/ SetReadFails(c)
  \/ SetWrite(c) \/ SetWriteFails(c)
  \/ Await(c) \/ GetJobs(c) \/ Poll(c) \/ PollFails(c)
SetOthers ==
  \/ \E j \in JobIds : JobAdvances(j) \/ JobEnds(j) \/ JobUnlisted(j)
  \/ \E s \in Touched : Ingest(s) \/ RenameSet(s)
IndexNext == (\E c \in Slots : SetStep(c)) \/ SetOthers
IndexSpec == IndexInit /\ [][IndexNext]_setVars

-----------------------------------------------------------------------------
\* The call c performs its write, and the index sets change.
WritesSets(c, write) == pc[c] = write /\ pc'[c] # write /\ sets' # sets

\* An index set goes with its data only after a preview has shown the messages it
\* holds and the names of its indices: both as they are at the DELETE, unless they
\* changed after the call read them (apply() reads nothing again), or the listing
\* of the names failed, which a preview reports as degraded
\* (delete-index-set.js:100-163).
DataDeletedKnowing ==
  [][\A c \in Slots : WritesSets(c, "delete_data") =>
       \E t \in shown :
         /\ t.set = req[c].op.set
         /\ "data" \notin setDrift[c] =>
              /\ t.count = docs[t.set]
              /\ got[c].listed => t.names = stored[t.set]]_setVars

\* The PUT of the merged index set gives each field that the agent named its value,
\* a strategy its class and config type together, and takes nothing back but what
\* changed after the call read it (update-index-set.js:111-152).
SetKeepsRest ==
  [][\A c \in Slots : WritesSets(c, "put_set") =>
       LET op  == req[c].op
           new == sets'[op.set]
       IN /\ \A s \in SetIds \ {op.set} : sets'[s] = sets[s]
          /\ \A f \in SetFields \ (NamedFields(op) \union setDrift[c]) : new[f] = sets[op.set][f]
          /\ op.title # {} => new.title \in op.title
          /\ op.writable # {} => new.writable \in op.writable
          /\ \A x \in op.rotation : new.rotation = [class |-> x.alias, type |-> x.alias, config |-> x.config]
          /\ \A x \in op.retention : new.retention = [class |-> x.alias, type |-> x.alias, config |-> x.config]]_setVars

\* await_system_job reports the clean-up job of a deletion completed only when the
\* indices are gone, or in the two cases in which it takes something else for the end:
\* the server lists the job no more though it did not complete, or lists it at 100
\* percent, still running or stopped short (system-job.js:184-203).
CompletedMeansCleaned ==
  [][\A c \in Slots : pc[c] = "poll" /\ pc'[c] = "done" /\ jobs[got[c].job] # NoJob =>
       LET j == jobs[got[c].job]
       IN \/ stored[j.about] = {}
          \/ j.status = "lost"
          \/ j.atFull /\ j.status \in {"running"} \union Stopped]_setVars
=============================================================================
