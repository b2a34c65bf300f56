------------------------------- MODULE SetCommand -------------------------------
(***************************************************************************)
(* One `client set`: how its flags become an item's plaintext              *)
(* (cmd/client/cli/set.go), what App.SetItem still checks, and whether the *)
(* request fits the server's limit of a body (parseJSONBody).              *)
(*                                                                         *)
(* A string is its length in bytes, raw and as JSON, which takes up to six *)
(* bytes for one.  Content and ciphertext are base64 in JSON.  What        *)
(* becomes of an accepted request is RevStore's.                           *)
(***************************************************************************)
EXTENDS Integers, Sequences, FiniteSetsExt

CONSTANTS
    Lines,  \* the command lines
    Names   \* contents of metadata keys

Types == {"login/pass", "text", "binary", "card"}

MaxPairs == 50
MaxKeyLen == 64
MaxValueLen == 4096
MaxBodyJSON == 3 * 1048576

(* The longest argument the system passes to a program (MAX_ARG_STRLEN).   *)
ArgMax == 131071

Sizes == {s \in [raw : 0 .. ArgMax, json : Nat] : s.raw <= s.json /\ s.json <= 6 * s.raw}

(* A --meta: whether it has a "=", and the key and value, trimmed.         *)
Pairs == [eq : BOOLEAN, name : Names, key : Sizes, val : Sizes]

(* data 0: no --data.  item: --id.  salt, token: what the state file has.  *)
CommandLines ==
    [type : Types \cup {"other"}, file : {"none", "unreadable", "readable"}, fileLen : Nat,
     data : 0 .. ArgMax, item : {"none", "good", "bad"}, pairs : Seq(Pairs),
     text : Sizes, password : BOOLEAN, salt : BOOLEAN, token : BOOLEAN]

ASSUME LinesAssumption == \A l \in Lines : l \in CommandLines

VARIABLES
    line,     \* the command line
    pc,       \* the next step
    next,     \* the next --meta
    meta,     \* the map of parseMeta
    metaLen,  \* the bytes it takes as JSON
    outcome   \* how the command ended

vars == <<line, pc, next, meta, metaLen, outcome>>

-----------------------------------------------------------------------------

(* GetData; without an error, Content is what it returns.                  *)
DataCheck(l) ==
    IF l.file # "none" /\ l.data # 0 THEN "both"
    ELSE IF l.type = "binary" THEN
        IF l.file = "none" THEN "needs_file"
        ELSE IF l.file = "unreadable" THEN "unreadable"
        ELSE "ok"
    ELSE IF l.data = 0 THEN "needs_data"
    ELSE "ok"

Content(l) == IF l.type = "binary" THEN l.fileLen ELSE l.data

(* Fault: a value may have any length.                                     *)
PairCheck_AnyValue(p) ==
    IF ~ p.eq THEN "no_equals"
    ELSE IF p.key.raw = 0 THEN "empty_key"
    ELSE IF p.key.raw > MaxKeyLen THEN "long_key"
    ELSE "ok"

PairCheck(p) ==
    IF ~ p.eq THEN "no_equals"
    ELSE IF p.key.raw = 0 THEN "empty_key"
    ELSE IF p.key.raw > MaxKeyLen THEN "long_key"
    ELSE IF p.val.raw > MaxValueLen THEN "long_value"
    ELSE "ok"

(* "k":"v" and a comma.                                                    *)
EntryLen(p) == p.key.json + p.val.json + 6

Base64(n) == 4 * ((n + 2) \div 3)

TypeLen(type) ==
    IF type = "login/pass" THEN 10 ELSE IF type = "binary" THEN 6 ELSE 4

(* ItemEnvelope as JSON: v and type, and what is not empty of meta,        *)
(* meta_text and data.                                                     *)
EnvelopeLen(type, map, text, content) ==
    17 + TypeLen(type)
       + (IF map = 0 THEN 0 ELSE map + 9)
       + (IF text = 0 THEN 0 ELSE text + 15)
       + (IF content = 0 THEN 0 ELSE Base64(content) + 10)

(* SetItemRequest as JSON.  Sealing adds 16 bytes; the additional data are *)
(* the id, a colon and the type.                                           *)
BodyLen(type, envelope) ==
    63 + TypeLen(type) + Base64(envelope + 16) + Base64(37 + TypeLen(type))

-----------------------------------------------------------------------------

Init ==
    /\ line \in Lines
    /\ pc = "type"
    /\ next = 1
    /\ meta = <<>>
    /\ metaLen = 0
    /\ outcome = "none"

Finish(how) == pc' = "done" /\ outcome' = how

(* Go on if nothing is wrong, else return the error.                       *)
Check(verdict, step) ==
    IF verdict = "ok" THEN pc' = step /\ UNCHANGED outcome ELSE Finish(verdict)

CheckType ==
    /\ pc = "type"
    /\ Check(IF line.type \in Types THEN "ok" ELSE "unsupported", "data")
    /\ UNCHANGED <<line, next, meta, metaLen>>

GetData ==
    /\ pc = "data"
    /\ Check(DataCheck(line), "id")
    /\ UNCHANGED <<line, next, meta, metaLen>>

Uuid ==
    /\ pc = "id"
    /\ Check(IF line.item = "bad" THEN "bad_id" ELSE "ok", "count")
    /\ UNCHANGED <<line, next, meta, metaLen>>

CountPairs ==
    /\ pc = "count"
    /\ Check(IF Len(line.pairs) > MaxPairs THEN "too_many" ELSE "ok", "meta")
    /\ UNCHANGED <<line, next, meta, metaLen>>

(* Fault: a key that comes again is left as it is.                         *)
ParsePair_FirstWins ==
    LET p == line.pairs[next] IN
    /\ pc = "meta" /\ next <= Len(line.pairs)
    /\ Check(PairCheck(p), "meta")
    /\ next' = next + 1
    /\ IF PairCheck(p) = "ok" /\ p.name \notin DOMAIN meta
       THEN /\ meta' = [n \in DOMAIN meta \cup {p.name} |-> IF n = p.name THEN p ELSE meta[n]]
            /\ metaLen' = metaLen + EntryLen(p)
       ELSE UNCHANGED <<meta, metaLen>>
    /\ UNCHANGED line

(* An iteration of parseMeta.                                              *)
ParsePair ==
    LET p == line.pairs[next] IN
    /\ pc = "meta" /\ next <= Len(line.pairs)
    /\ Check(PairCheck(p), "meta")
    /\ next' = next + 1
    /\ IF PairCheck(p) = "ok"
       THEN /\ meta' = [n \in DOMAIN meta \cup {p.name} |-> IF n = p.name THEN p ELSE meta[n]]
            /\ metaLen' = metaLen + EntryLen(p)
                            - (IF p.name \in DOMAIN meta THEN EntryLen(meta[p.name]) ELSE 0)
       ELSE UNCHANGED <<meta, metaLen>>
    /\ UNCHANGED line

(* App.SetItem's own checks and DeriveKey; HTTPClient.SetItem's token.     *)
Seal ==
    /\ pc = "meta" /\ next > Len(line.pairs)
    /\ Check(IF ~ line.password THEN "no_password"
             ELSE IF ~ line.salt THEN "no_key"
             ELSE IF ~ line.token THEN "no_token"
             ELSE "ok", "send")
    /\ UNCHANGED <<line, next, meta, metaLen>>

Sent == BodyLen(line.type, EnvelopeLen(line.type, metaLen, line.text.json, Content(line)))

(* WithAuth comes before the body is read.                                 *)
Send ==
    /\ pc = "send"
    /\ \/ Finish("unauthorized")
       \/ Finish(IF Sent > MaxBodyJSON THEN "too_large" ELSE "accepted")
    /\ UNCHANGED <<line, next, meta, metaLen>>

Next ==
    \/ CheckType \/ GetData \/ Uuid \/ CountPairs \/ ParsePair \/ Seal \/ Send

Spec == Init /\ [][Next]_vars

-----------------------------------------------------------------------------

Outcomes ==
    {"none", "unsupported", "both", "needs_file", "unreadable", "needs_data", "bad_id",
     "too_many", "no_equals", "empty_key", "long_key", "long_value",
     "no_password", "no_key", "no_token", "unauthorized", "too_large", "accepted"}

TypeOK ==
    /\ line \in CommandLines
    /\ pc \in {"type", "data", "id", "count", "meta", "send", "done"}
    /\ next \in 1 .. Len(line.pairs) + 1
    /\ DOMAIN meta \subseteq Names
    /\ \A n \in DOMAIN meta : meta[n] \in Pairs
    /\ metaLen \in Int
    /\ outcome \in Outcomes

(* The flags that describe an item.                                        *)
Describes(l) ==
    /\ \/ l.type = "binary" /\ l.file = "readable" /\ l.data = 0
       \/ l.type \in Types \ {"binary"} /\ l.file = "none" /\ l.data > 0
    /\ l.item # "bad"
    /\ Len(l.pairs) <= MaxPairs
    /\ \A k \in DOMAIN l.pairs :
        /\ l.pairs[k].eq
        /\ l.pairs[k].key.raw \in 1 .. MaxKeyLen
        /\ l.pairs[k].val.raw <= MaxValueLen
    /\ l.password /\ l.salt /\ l.token

(* The metadata a command line means: of several --meta with one key after *)
(* trimming, the last.                                                     *)
Meant(l) ==
    LET Named(n) == {k \in DOMAIN l.pairs : l.pairs[k].name = n}
    IN  [n \in {l.pairs[k].name : k \in DOMAIN l.pairs} |-> l.pairs[Max(Named(n))]]

(* The bytes a map takes as JSON.                                          *)
Total(map) == MapThenSumSet(LAMBDA n : EntryLen(map[n]), DOMAIN map)

(* A request goes out exactly for the command lines that describe an item, *)
(* whatever the order of the checks, and carries the metadata they mean,   *)
(* in the size it was counted with.                                        *)
SentIsMeant ==
    pc \in {"send", "done"} =>
        LET sent == pc = "send" \/ outcome \in {"unauthorized", "too_large", "accepted"} IN
        /\ sent <=> Describes(line)
        /\ sent => /\ meta = Meant(line)
                   /\ metaLen = Total(meta)

(* The limits of set.go keep below the server's: an item given on the      *)
(* command line is never too large, however much metadata it has and       *)
(* however badly it takes to JSON, and neither is a file of 243,000 bytes, *)
(* though content is base64 twice over.                                    *)
LimitsAgree ==
    outcome = "too_large" => line.type = "binary" /\ line.fileLen > 243000
=============================================================================
