----------------------------- MODULE EncryptedFields -----------------------------
(***************************************************************************)
(* A configuration field that may be a secret (tools/inputs/redact.js), as *)
(* create_input, update_input, create_event_notification and               *)
(* update_event_notification put it on the wire and into their previews.   *)
(***************************************************************************)
CONSTANT Secrets        \* the values of the field

NoSecret == "none"
Stored   == Secrets \union {NoSecret}
\* The field as given: a string, one of Graylog's placeholder objects, or something
\* else.  value counts in the first two.
Given == [kind : {"string", "set_value", "keep_value", "delete_value", "other"}, value : Secrets]

\* Mutant of EncodeForWire: a plain string goes out as it is given.
EncodeNothing(g, isEncrypted) == {g}
\* encodeEncryptedForWire: {} when it throws.
EncodeForWire(g, isEncrypted) ==
  IF ~isEncrypted \/ g.kind \in {"set_value", "keep_value", "delete_value"} THEN {g}
  ELSE IF g.kind = "string" THEN {[kind |-> "set_value", value |-> g.value]} ELSE {}
\* redactForPreview: the values that the preview shows.
Shown(g, isEncrypted) ==
  IF isEncrypted \/ g.kind \notin {"string", "set_value"} THEN {} ELSE {g.value}
\* What the server keeps of the field: {} when it rejects it.
Accepted(g, isEncrypted, current) ==
  IF ~isEncrypted THEN (IF g.kind = "string" THEN {g.value} ELSE {})
  ELSE CASE g.kind = "set_value"         -> {g.value}
         [] g.kind = "keep_value"        -> {current}
         [] g.kind = "delete_value"      -> {NoSecret}
         [] g.kind \in {"string", "other"} -> {}
=============================================================================
