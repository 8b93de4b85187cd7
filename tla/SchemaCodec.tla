----------------------------- MODULE SchemaCodec -----------------------------
(***************************************************************************)
(* pkg/schemaregistry/codec.go: encoding with the latest schema of a       *)
(* subject, which is cached for a while, and decoding with the schema the  *)
(* header names, which is cached for ever; several callers at a time, as   *)
(* the comment of Codec promises.                                          *)
(*                                                                         *)
(* One subject.  Schemas are numbered by their registry id, in the order   *)
(* they were registered; the schema of an id never changes.                *)
(***************************************************************************)
EXTENDS Integers, Sequences, FiniteSets

CONSTANTS
    Callers,        \* goroutines that use the codec
    Ttls,           \* the ttl NewCodecWithTTL is given; 0: an entry never expires
    MaxSchema,      \* bound: versions of the subject
    MaxClock        \* bound: time

ASSUME SchemaCodecAssumption ==
    MaxClock \in Nat /\ Ttls \subseteq Nat /\ MaxSchema \in Nat \ {0}

VARIABLES
    clock,
    latest,         \* version the registry holds as the latest
    superseded,     \* history: id -> time at which it stopped to be the latest
    ttl,
    bySub,          \* cache of the subject: [id, handler, expires]
    byID,           \* cache: id -> handler
    caller,         \* caller -> [at, now, id, handler, msg]
    wire            \* history: messages encoded so far

codecVars == <<clock, latest, superseded, ttl, bySub, byID, caller, wire>>

Never   == MaxClock + MaxClock      \* later than any time
NoEntry == [id |-> 0, handler |-> 0, expires |-> -1]
NoMsg   == [magic |-> FALSE, id |-> 0, body |-> 0]
Idle    == [at |-> "idle", now |-> 0, id |-> 0, handler |-> 0, msg |-> NoMsg]

\* A record some other producer wrote: raw JSON, or a binary value that only
\* looks like an envelope.
Foreign == {NoMsg, [magic |-> TRUE, id |-> 1, body |-> 0]}

CodecInit ==
    /\ clock = 0 /\ latest = 1 /\ superseded = [i \in 1..MaxSchema |-> Never]
    /\ ttl \in Ttls /\ bySub = NoEntry /\ byID = <<>>
    /\ caller = [c \in Callers |-> Idle] /\ wire = {}

Ended    == {"idle", "encoded", "decoded"}
At(c, p) == caller[c].at = p
Goes(c, p) == caller' = [caller EXCEPT ![c].at = p]

\* The call returns an error, or a decoder the raw payload.
GivesUp(c) == caller' = [caller EXCEPT ![c] = Idle]

\* The handler of a schema is named by the schema.
BuildHandler(schema) == schema
-----------------------------------------------------------------------------
(* Encode                                                                  *)

Fresh(entry) == entry # NoEntry /\ (entry.expires = Never \/ clock < entry.expires)

\* handlerForSubject up to the lookup; the clock is read first.
EncodeBegin(c) ==
    /\ caller[c].at \in Ended
    /\ caller' = [caller EXCEPT ![c] =
           IF Fresh(bySub)
           THEN [Idle EXCEPT !.at = "body", !.now = clock, !.id = bySub.id, !.handler = bySub.handler]
           ELSE [Idle EXCEPT !.at = "latest", !.now = clock]]
    /\ UNCHANGED <<clock, latest, superseded, ttl, bySub, byID, wire>>

\* No lock is held while the registry is asked.
GetLatestVersion(c) ==
    /\ At(c, "latest")
    /\ caller' = [caller EXCEPT ![c].at = "store", ![c].id = latest, ![c].handler = BuildHandler(latest)]
    /\ UNCHANGED <<clock, latest, superseded, ttl, bySub, byID, wire>>

\* The registry did not answer, or no handler can be built from the schema.  An expired entry
\* stays where it is and is not used.
GetLatestFails(c) ==
    /\ At(c, "latest") /\ GivesUp(c)
    /\ UNCHANGED <<clock, latest, superseded, ttl, bySub, byID, wire>>

\* Plausible bug: the entry counts from the moment it is stored.
ExpiresFromStore(c) == IF ttl = 0 THEN Never ELSE clock + ttl

Expires(c) == IF ttl = 0 THEN Never ELSE caller[c].now + ttl

\* The last writer wins, whichever of two callers asked the registry first.
StoreLatest(c) ==
    /\ At(c, "store") /\ Goes(c, "body")
    /\ bySub' = [id |-> caller[c].id, handler |-> caller[c].handler, expires |-> Expires(c)]
    /\ byID' = [i \in DOMAIN byID \cup {caller[c].id} |->
                   IF i = caller[c].id THEN caller[c].handler ELSE byID[i]]
    /\ UNCHANGED <<clock, latest, superseded, ttl, wire>>

EncodeHeader(id) == [magic |-> TRUE, id |-> id, body |-> 0]

EncodeBody(c) ==
    /\ At(c, "body")
    /\ Goes(c, "encoded")
    /\ wire' = wire \cup {[EncodeHeader(caller[c].id) EXCEPT !.body = caller[c].handler]}
    /\ UNCHANGED <<clock, latest, superseded, ttl, bySub, byID>>

\* The value does not fit the schema.
EncodeBodyFails(c) ==
    /\ At(c, "body") /\ GivesUp(c)
    /\ UNCHANGED <<clock, latest, superseded, ttl, bySub, byID, wire>>
-----------------------------------------------------------------------------
(* Decode, by way of Runner.decodeForWire: what cannot be decoded is taken  *)
(* as raw JSON or text                                                     *)

ParseHeader(msg) == msg.magic

DecodeBegin(c) ==
    /\ caller[c].at \in Ended
    /\ \E msg \in wire \cup Foreign :
         caller' = [caller EXCEPT ![c] =
             IF ~ParseHeader(msg) THEN Idle
             ELSE IF msg.id \in DOMAIN byID
             THEN [Idle EXCEPT !.at = "read", !.msg = msg, !.id = msg.id, !.handler = byID[msg.id]]
             ELSE [Idle EXCEPT !.at = "fetch", !.msg = msg, !.id = msg.id]]
    /\ UNCHANGED <<clock, latest, superseded, ttl, bySub, byID, wire>>

GetSchemaByID(c) ==
    /\ At(c, "fetch")
    /\ caller' = [caller EXCEPT ![c].at = "put", ![c].handler = BuildHandler(caller[c].id)]
    /\ UNCHANGED <<clock, latest, superseded, ttl, bySub, byID, wire>>

\* An outage of the registry turns the payload into text: no error, no event
\* a rule or check will recognise.
GetSchemaFails(c) ==
    /\ At(c, "fetch") /\ GivesUp(c)
    /\ UNCHANGED <<clock, latest, superseded, ttl, bySub, byID, wire>>

StoreByID(c) ==
    /\ At(c, "put") /\ Goes(c, "read")
    /\ byID' = [i \in DOMAIN byID \cup {caller[c].id} |->
                   IF i = caller[c].id THEN caller[c].handler ELSE byID[i]]
    /\ UNCHANGED <<clock, latest, superseded, ttl, bySub, wire>>

\* A body the schema wrote can be read with it; a foreign one may or may not.
DecodeBody(c) ==
    /\ At(c, "read")
    /\ \/ Goes(c, "decoded")
       \/ caller[c].msg.body # caller[c].handler /\ GivesUp(c)
    /\ UNCHANGED <<clock, latest, superseded, ttl, bySub, byID, wire>>
-----------------------------------------------------------------------------
\* Someone registers a new version of the subject.
Register ==
    /\ latest < MaxSchema /\ latest' = latest + 1
    /\ superseded' = [superseded EXCEPT ![latest] = clock]
    /\ UNCHANGED <<clock, ttl, bySub, byID, caller, wire>>

Tick ==
    /\ clock < MaxClock /\ clock' = clock + 1
    /\ UNCHANGED <<latest, superseded, ttl, bySub, byID, caller, wire>>

CodecNext ==
    \/ \E c \in Callers :
         \/ EncodeBegin(c) \/ GetLatestVersion(c) \/ GetLatestFails(c)
         \/ StoreLatest(c) \/ EncodeBody(c) \/ EncodeBodyFails(c)
         \/ DecodeBegin(c) \/ GetSchemaByID(c) \/ GetSchemaFails(c)
         \/ StoreByID(c) \/ DecodeBody(c)
    \/ Register \/ Tick

CodecSpec == CodecInit /\ [][CodecNext]_codecVars
-----------------------------------------------------------------------------
(* Properties                                                              *)

Message == [magic : BOOLEAN, id : 0..MaxSchema, body : 0..MaxSchema]

CallerType == [at : Ended \cup {"latest", "store", "body", "fetch", "put", "read"},
               now : 0..clock, id : 0..latest, handler : 0..MaxSchema, msg : Message]

CodecTypeOK ==
    /\ clock \in 0..MaxClock /\ latest \in 1..MaxSchema /\ ttl \in Ttls
    /\ superseded \in [1..MaxSchema -> 0..Never]
    /\ bySub \in [id : 0..latest, handler : 0..MaxSchema, expires : Int]
    /\ DOMAIN byID \subseteq 1..latest
    /\ caller \in [Callers -> CallerType] /\ wire \subseteq Message

\* However callers, the registry and the clock interleave: a value is encoded
\* with a version that was the latest at some time after the call's beginning
\* less the ttl, although the entry may have been stored long after it was
\* fetched, and over a newer one; and the schema in the header is the one the
\* body was written with, and the one it is read with.
FreshWithinTTL ==
    /\ \A c \in Callers : At(c, "encoded") /\ ttl > 0 =>
           superseded[caller[c].id] > caller[c].now - ttl
    /\ \A msg \in wire : msg.id = msg.body
    /\ \A c \in Callers : At(c, "decoded") /\ caller[c].msg \in wire =>
           caller[c].handler = caller[c].msg.body

\* Why: both caches and every caller hold the handler of the schema they name,
\* and messages carry the schema their body was written with.
HasItsHandler(r) ==
    /\ r.at \in {"store", "body", "encoded", "fetch", "put", "read", "decoded"} => r.id >= 1
    /\ r.at \in {"store", "body", "put", "read", "decoded"} => r.handler = r.id
    /\ r.at \in {"fetch", "put", "read", "decoded"} => r.id = r.msg.id

HandlerInv ==
    /\ bySub # NoEntry => bySub.id >= 1 /\ bySub.handler = bySub.id
    /\ \A i \in DOMAIN byID : byID[i] = i
    /\ \A msg \in wire : msg.id = msg.body /\ msg.id \in 1..latest
    /\ \A c \in Callers : HasItsHandler(caller[c])

\* Why: what the registry answered was the latest when the entry's lifetime, or
\* the call that asked, had begun, so it was superseded later, if at all.
YoungEnough(r) == ttl > 0 =>
    /\ r.at = "store" => superseded[r.id] >= r.now
    /\ r.at \in {"body", "encoded"} => superseded[r.id] > r.now - ttl

AgeInv ==
    /\ \A i \in 1..MaxSchema : i >= latest => superseded[i] = Never
    /\ ttl > 0 /\ bySub # NoEntry =>
           /\ bySub.expires \in ttl..(clock + ttl)
           /\ bySub.expires - ttl <= superseded[bySub.id]
    /\ \A c \in Callers : YoungEnough(caller[c])

CodecInv == CodecTypeOK /\ HandlerInv /\ AgeInv
=============================================================================
