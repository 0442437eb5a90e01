------------------------------- MODULE Redactor -------------------------------
(***************************************************************************)
(* Redactor.redact (redaction.py): what is kept of a payload.              *)
(*                                                                         *)
(* A payload is the list of its values, each after the values it contains, *)
(* whose positions are its parts; the last one is the whole payload.  A    *)
(* map has a key for each part.  Of a key it matters whether it is a       *)
(* sensitive one.                                                          *)
(*                                                                         *)
(* What is kept is a set of places, each with the shape of what stands     *)
(* there: a value as it is ("raw"), its type, length and hash              *)
(* ("summary"), the mark that it was taken out ("redacted"), or the key of  *)
(* a part as it is.  A place is the way to it from the whole payload.      *)
(***************************************************************************)
EXTENDS PythonLists

CONSTANTS SensitiveKeys,  \* the keys that contain a word of SENSITIVE_KEYS
          Secrets,        \* the texts in which a pattern of SECRET_PATTERNS is found
          ListLimit       \* items of a list that are kept (20)

NoKey == "none"

TextValue(text) == [kind |-> "text", text |-> text]
Map(keys, parts) == [kind |-> "map", keys |-> keys, parts |-> parts]

\* What json gives.
IsPayload(payload) ==
  /\ IsList(payload) /\ payload # <<>>
  /\ \A i \in DOMAIN payload :
       /\ payload[i].kind \in {"text", "number", "map", "list"}
       /\ payload[i].kind \in {"map", "list"} =>
            /\ IsList(payload[i].parts)
            /\ \A n \in DOMAIN payload[i].parts : payload[i].parts[n] \in 1 .. i - 1

\* What stands for a value that is not to be kept, or for one that is.
Leaf(shape) == {[place |-> <<>>, shape |-> shape]}

\* What is kept of the n-th part, as seen from the value around it.
Under(n, kept) == {[place |-> <<n>> \o k.place, shape |-> k.shape] : k \in kept}

\* Mutation of Hidden: under a sensitive key only a text is replaced.
HiddenText(value, key) == value.kind = "text" /\ (key \in SensitiveKeys \/ value.text \in Secrets)

\* The value is replaced for its key or for what it says.
Hidden(value, key) ==
  key \in SensitiveKeys \/ (value.kind = "text" /\ value.text \in Secrets)

\* The key of the n-th part, whatever it says.
KeptKey(n) == {[place |-> <<n>>, shape |-> "key"]}

\* _redact_value; raw is capture_raw_payloads.
RedactValue(payload, raw) ==
  LET kept[i \in DOMAIN payload] ==
        LET value == payload[i]
            Part(n, key) == Under(n, IF Hidden(payload[value.parts[n]], key)
                                     THEN Leaf("redacted") ELSE kept[value.parts[n]])
        IN CASE value.kind = "text" -> Leaf(IF raw THEN "raw" ELSE "summary")
             [] value.kind = "number" -> Leaf("raw")
             [] value.kind = "map" ->
                  UNION {KeptKey(n) \cup Part(n, value.keys[n]) : n \in DOMAIN value.parts}
             [] value.kind = "list" ->
                  UNION {Part(n, NoKey) : n \in {m \in DOMAIN value.parts : m <= ListLimit}}
  IN IF Hidden(payload[Len(payload)], NoKey) THEN Leaf("redacted") ELSE kept[Len(payload)]
=============================================================================
