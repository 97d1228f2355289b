-------------------------------- MODULE AdminTools --------------------------------
(***************************************************************************)
(* The mutating tools that share the wrapper of MutatingTool, side by side *)
(* as tools/_register.js registers them: share_entity, the index set,      *)
(* pipeline, stream, input and event tools.  They work on disjoint parts   *)
(* of the server, so a behaviour runs the calls of one area: the slots     *)
(* race inside it, every area is explored from its own initial states, and *)
(* the state of the others is left out.                                    *)
(***************************************************************************)
EXTENDS ShareEntity, IndexSets, PipelineRules, StreamsAndInputs, Events

CONSTANTS AreaOps,  \* bound: the areas, and the calls that are made in each
          LeftOut   \* model value: a state that the instance leaves out

VARIABLE area       \* bound: the area of this instance

adminVars == <<callVars, shareWorld, setWorld, ruleWorld, docWorld, eventWorld, area>>

RuleAreas  == {"language", "rules"}
SetAreas   == {"index_sets", "index_data"}
DocAreas   == {"streams", "stream_rules", "inputs", "extractors"}
EventAreas == {"definitions", "notifications"}
Areas      == {"share"} \union SetAreas \union RuleAreas \union DocAreas \union EventAreas

ASSUME AreaOpsAssumption ==
  /\ DOMAIN AreaOps = Areas
  /\ AreaOps["share"] = ShareOps
  /\ \A a \in SetAreas   : AreaOps[a] \subseteq SetOps
  /\ \A a \in RuleAreas  : AreaOps[a] \subseteq RuleTools
  /\ \A a \in DocAreas   : AreaOps[a] \subseteq DocOps
  /\ \A a \in EventAreas : AreaOps[a] \subseteq EventOps

\* In each area the state is one of its module: the calls are at a request of
\* theirs, with arguments and tokens of their kind, and the server's objects are
\* well formed (the VARIABLES of the five modules).
AdminTypeOK ==
  /\ area \in Areas
  /\ area = "share"       => ShareTypeOK
  /\ area \in SetAreas    => IndexTypeOK
  /\ area \in RuleAreas   => RuleTypeOK
  /\ area \in DocAreas    => DocTypeOK
  /\ area \in EventAreas  => EventTypeOK

\* The worlds of the other areas are left out.
NoShares   == /\ grants = LeftOut /\ titles = LeftOut /\ admin = LeftOut /\ drift = LeftOut
              /\ shareEdits = LeftOut
NoSets     == /\ sets = LeftOut /\ default = LeftOut /\ stored = LeftOut /\ docs = LeftOut
              /\ jobs = LeftOut /\ setDrift = LeftOut /\ setEdits = LeftOut
NoRules    == /\ rules = LeftOut /\ pipelines = LeftOut /\ functions = LeftOut
              /\ catalogue = LeftOut /\ ruleDrift = LeftOut /\ ruleEdits = LeftOut
NoDocs     == /\ streams = LeftOut /\ streamRules = LeftOut /\ inputs = LeftOut
              /\ extractors = LeftOut /\ encrypted = LeftOut /\ typeCatalogue = LeftOut
              /\ seen = LeftOut /\ docDrift = LeftOut /\ docEdits = LeftOut
NoEvents   == defs = LeftOut /\ notifs = LeftOut /\ eventDrift = LeftOut /\ eventEdits = LeftOut

AdminInit ==
  /\ CallsInit
  /\ \/ area = "share"      /\ ShareWorldInit /\ NoSets /\ NoRules /\ NoDocs /\ NoEvents
     \/ area \in SetAreas   /\ SetWorldInit   /\ NoShares /\ NoRules /\ NoDocs /\ NoEvents
     \/ area \in RuleAreas  /\ RuleWorldInit  /\ NoShares /\ NoSets /\ NoDocs /\ NoEvents
     \/ area \in DocAreas   /\ DocWorldInit   /\ NoShares /\ NoSets /\ NoRules /\ NoEvents
     \/ area \in EventAreas /\ EventWorldInit /\ NoShares /\ NoSets /\ NoRules /\ NoDocs

\* The calls that begin in a step are calls of the area.
InArea == \A c \in Slots : req'[c] # NoRequest /\ req[c] = NoRequest => req'[c].op \in AreaOps[area]

ShareTools ==
  area = "share" /\ ShareNext /\ UNCHANGED <<setWorld, ruleWorld, docWorld, eventWorld, area>>
IndexTools ==
  area \in SetAreas /\ IndexNext /\ InArea /\ UNCHANGED <<shareWorld, ruleWorld, docWorld, eventWorld, area>>
PipelineTools ==
  area \in RuleAreas /\ RuleNext /\ InArea /\ UNCHANGED <<shareWorld, setWorld, docWorld, eventWorld, area>>
DocTools ==
  area \in DocAreas /\ DocNext /\ InArea /\ UNCHANGED <<shareWorld, setWorld, ruleWorld, eventWorld, area>>
AlertTools ==
  area \in EventAreas /\ EventNext /\ InArea /\ UNCHANGED <<shareWorld, setWorld, ruleWorld, docWorld, area>>

AdminNext == ShareTools \/ IndexTools \/ PipelineTools \/ DocTools \/ AlertTools
AdminSpec == AdminInit /\ [][AdminNext]_adminVars
=============================================================================
