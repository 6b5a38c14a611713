------------------------------ MODULE Formats ------------------------------
(***************************************************************************)
(* One board, thread or post across the three programs that hold it: the   *)
(* contract keeps its fields under names and raises its version by an      *)
(* upgrade; the relay reads the root and the fields by two calls that run   *)
(* side by side and answers with the fields in the order of the version's   *)
(* layout; the browser reads that answer by a layout of its own and then    *)
(* follows the events, which are written and read argument by argument,     *)
(* by position.                                                             *)
(*                                                                          *)
(* A value is <<f, n>>: the field it belongs to and which of its values it  *)
(* is (0: none, empty, false or zero), so a value read into the wrong       *)
(* field is told apart.                                                     *)
(***************************************************************************)
EXTENDS Integers, Sequences, TLC

CONSTANTS
  None,        \* no object, copy or value
  MaxEvents    \* bound: events of the object in a behaviour

VARIABLES
  kind,      \* "board", "thread" or "post"
  obj,       \* on chain: [version, fields], or None before it is created
  log,       \* its feed: the events, each with the version they left
  meant,     \* what the creating user asked for, field by field
  read,      \* the relay's read: what the two calls have brought so far
  copy       \* the browser's copy, or None

vars == <<kind, obj, log, meant, read, copy>>

Kinds == {"board", "thread", "post"}
Latest == [board |-> 2, thread |-> 3, post |-> 3]
Supported == [board |-> {1, 2}, thread |-> {1, 2, 3}, post |-> {1, 2, 3}]

Only(cond, seq) == IF cond THEN seq ELSE <<>>
Fresh(names) == [f \in names |-> <<f, 0>>]

---------------------------------------------------------------------------
(* The contract. *)

FirstFields ==
  [board |-> {"slug", "description_hash", "max_media", "bump_limit", "closed", "deleted",
              "ignore_forum_bans", "mods", "bans", "reactions", "threads", "posts", "bumps"},
   thread |-> {"board", "number", "topic_hash", "op", "closed", "deleted", "pinned", "admin",
               "mods", "bans", "posts", "last_3"},
   post |-> {"sender", "thread", "number", "uid", "timestamp_ms", "deleted", "banned",
             "text_hash", "media_hashes", "reactions", "votes", "name_hash", "trip", "geo",
             "mod_note"}]

FieldsAt(k, v) ==
  IF v = 1 THEN FirstFields[k]
  ELSE CASE k = "board"  -> FirstFields[k] \cup {"pinned"}
         [] k = "thread" -> (FirstFields[k] \ {"pinned"})
                              \cup (IF v = 3 THEN {"posts_deleted"} ELSE {})
         [] k = "post"   -> FirstFields[k] \cup {"multi_vote"}
                              \cup (IF v = 3 THEN {"banned_media"} ELSE {})

DoUpgrade(k, o) ==
  [version |-> Latest[k],
   fields  |-> [f \in FieldsAt(k, Latest[k]) |->
                  IF f \in DOMAIN o.fields THEN o.fields[f] ELSE <<f, 0>>]]

\* What each event sets or counts.
Sets ==
  [board |-> [set_description |-> "description_hash", set_max_media |-> "max_media",
              set_closed |-> "closed", set_deleted |-> "deleted",
              set_reactions |-> "reactions", set_pinned |-> "pinned"],
   thread |-> [set_closed |-> "closed", set_deleted |-> "deleted",
               set_topic |-> "topic_hash", set_admin |-> "admin"],
   post |-> [set_deleted |-> "deleted", set_text |-> "text_hash",
             ban_media |-> "banned_media", unban_media |-> "banned_media",
             set_banned |-> "banned"]]

Counts ==
  [board  |-> [tag \in {} |-> None],
   thread |-> [new_post |-> "posts", post_set_deleted |-> "posts_deleted"],
   post   |-> [set_reaction_v2 |-> "reactions", vote_v2 |-> "votes"]]

CountedFields == {"posts", "posts_deleted", "reactions", "votes"}

\* The argument of an event that sets or counts.  The three languages have one table here:
\* only the layouts of the events of creation are compared type by type, and the two
\* arguments of set_reaction_v2, of which the first may be missing, are one.
Types ==
  [set_description |-> "optU256", set_max_media |-> "u64", set_closed |-> "bool",
   set_deleted |-> "bool", set_reactions |-> "vecU256", set_pinned |-> "vecAddress",
   set_topic |-> "optU256", set_admin |-> "optAddress", set_text |-> "optU256",
   ban_media |-> "vecU256", unban_media |-> "vecU256", set_banned |-> "optBanKey",
   new_post |-> "address", post_set_deleted |-> "bool", vote_v2 |-> "vecU256",
   set_reaction_v2 |-> "u256"]

\* The arguments the contract peels, in its order, and the ones it emits.
PeeledThread ==
  <<<<"topic_hash", "optU256">>, <<"self_admin", "bool">>, <<"text_hash", "optU256">>,
    <<"media_hashes", "vecU256">>, <<"name_hash", "optU256">>, <<"votes", "vecU256">>,
    <<"multi_vote", "bool">>>>
PeeledPost ==
  <<<<"thread", "address">>, <<"text_hash", "optU256">>, <<"media_hashes", "vecU256">>,
    <<"name_hash", "optU256">>, <<"votes", "vecU256">>, <<"multi_vote", "bool">>>>
EmittedThread ==
  <<<<"board", "address">>, <<"number", "u64">>, <<"topic_hash", "optU256">>,
    <<"admin", "optAddress">>>>
EmittedPost ==
  <<<<"thread", "address">>, <<"number", "u64">>, <<"timestamp_ms", "u64">>,
    <<"name_hash", "optU256">>, <<"text_hash", "optU256">>, <<"media_hashes", "vecU256">>,
    <<"votes", "vecU256">>, <<"multi_vote", "bool">>>>

---------------------------------------------------------------------------
(* Arguments by position. *)

Write(table, values) == [i \in DOMAIN table |-> <<table[i][2], values[table[i][1]]>>]

\* Reading by types of one's own: None when a type or the length differs.
Peel(table, bytes) ==
  IF Len(bytes) = Len(table) /\ \A i \in DOMAIN table : bytes[i][1] = table[i][2]
    THEN [key \in {table[i][1] : i \in DOMAIN table} |->
            bytes[CHOOSE i \in DOMAIN table : table[i][1] = key][2]]
    ELSE None

---------------------------------------------------------------------------
(* The browser's tables: what it writes into an intent, in the order it     *)
(* passes the arguments, and the keys it gives to what it reads.            *)

NewThreadV3 ==
  <<<<"topic_hash", "optU256">>, <<"self_admin", "bool">>, <<"text_hash", "optU256">>,
    <<"media_hashes", "vecU256">>, <<"name_hash", "optU256">>, <<"votes", "vecU256">>,
    <<"multi_vote", "bool">>>>
NewPostV2Mutant ==
  <<<<"thread", "address">>, <<"name_hash", "optU256">>, <<"media_hashes", "vecU256">>,
    <<"text_hash", "optU256">>, <<"votes", "vecU256">>, <<"multi_vote", "bool">>>>
NewPostV2 ==
  <<<<"thread", "address">>, <<"text_hash", "optU256">>, <<"media_hashes", "vecU256">>,
    <<"name_hash", "optU256">>, <<"votes", "vecU256">>, <<"multi_vote", "bool">>>>
GenesisThread ==
  <<<<"board", "address">>, <<"number", "u64">>, <<"topic_hash", "optU256">>,
    <<"admin", "optAddress">>>>
GenesisPost ==
  <<<<"thread", "address">>, <<"number", "u64">>, <<"timestamp_ms", "u64">>,
    <<"name_hash", "optU256">>, <<"text_hash", "optU256">>, <<"media_hashes", "vecU256">>,
    <<"votes", "vecU256">>, <<"multi_vote", "bool">>>>

BoardLayout(v) ==
  <<"slug", "description_hash", "max_media", "bump_limit", "closed", "deleted">>
    \o Only(v = 2, <<"pinned">>)
    \o <<"ignore_forum_bans", "mods", "bans", "reactions", "threads", "posts", "bumps">>
ThreadLayout(v) ==
  <<"board", "number", "topic_hash", "op", "closed", "deleted">>
    \o Only(v = 1, <<"pinned">>) \o <<"admin", "mods", "bans", "posts">>
    \o Only(v = 3, <<"posts_deleted">>) \o <<"last_3">>
PostLayout(v) ==
  <<"sender", "thread", "number", "uid", "timestamp_ms", "deleted", "banned", "text_hash",
    "media_hashes">> \o Only(v = 3, <<"banned_media">>) \o <<"reactions", "votes">>
    \o Only(v >= 2, <<"multi_vote">>) \o <<"name_hash", "trip", "geo", "mod_note">>

BrowserLayout(k, v) ==
  CASE k = "board" -> BoardLayout(v) [] k = "thread" -> ThreadLayout(v) [] k = "post" -> PostLayout(v)

\* The relay's layouts, the order of the fields of its own structs.
RelayBoard(v) ==
  <<"slug", "description_hash", "max_media", "bump_limit", "closed", "deleted">>
    \o Only(v = 2, <<"pinned">>)
    \o <<"ignore_forum_bans", "mods", "bans", "reactions", "threads", "posts", "bumps">>
RelayThread(v) ==
  <<"board", "number", "topic_hash", "op", "closed", "deleted">>
    \o Only(v = 1, <<"pinned">>) \o <<"admin", "mods", "bans", "posts">>
    \o Only(v = 3, <<"posts_deleted">>) \o <<"last_3">>
RelayPost(v) ==
  <<"sender", "thread", "number", "uid", "timestamp_ms", "deleted", "banned", "text_hash",
    "media_hashes">> \o Only(v = 3, <<"banned_media">>) \o <<"reactions", "votes">>
    \o Only(v >= 2, <<"multi_vote">>) \o <<"name_hash", "trip", "geo", "mod_note">>

RelayLayout(k, v) ==
  CASE k = "board" -> RelayBoard(v) [] k = "thread" -> RelayThread(v) [] k = "post" -> RelayPost(v)

---------------------------------------------------------------------------
(* The relay's answer and what the browser makes of it. *)

NotRead == [rootAt |-> -1, version |-> 0, fieldsAt |-> -1, fields |-> <<>>]
BothRead(r) == r.rootAt >= 0 /\ r.fieldsAt >= 0

\* The layout follows the version in the root; the fields may be of another
\* moment, and one that is missing fails the read.
Reply(k, r) ==
  LET layout == RelayLayout(k, r.version)
  IN  IF \A i \in DOMAIN layout : layout[i] \in DOMAIN r.fields
        THEN [i \in DOMAIN layout |-> r.fields[layout[i]]] ELSE None

Decoded(k, v, bytes) ==
  LET layout == BrowserLayout(k, v)
  IN  IF v \in Supported[k] /\ Len(bytes) = Len(layout)
        THEN [f \in {layout[i] : i \in DOMAIN layout} |->
                bytes[CHOOSE i \in DOMAIN layout : layout[i] = f]]
        ELSE None

\* What the screens ask of a copy: a field its layout does not have has a default.
BoardHas(c, f)  == f = "pinned" => c.variant = 2
ThreadHas(c, f) == /\ f = "pinned" => c.variant = 1
                   /\ f = "posts_deleted" => c.variant = 3
PostHas(c, f)   == /\ f = "multi_vote" => c.variant >= 2
                   /\ f = "banned_media" => c.variant = 3

Shown(k, c, f) ==
  IF CASE k = "board" -> BoardHas(c, f) [] k = "thread" -> ThreadHas(c, f) [] k = "post" -> PostHas(c, f)
    THEN c.data[f] ELSE <<f, 0>>

---------------------------------------------------------------------------
(* The browser's copy under the events. *)

Upgraded(k, c, to) ==
  LET added == CASE k = "board"  -> IF to >= 2 THEN {"pinned"} ELSE {}
                 [] k = "thread" -> IF to >= 3 THEN {"posts_deleted"} ELSE {}
                 [] k = "post"   -> (IF c.variant < 2 /\ to >= 2 THEN {"multi_vote"} ELSE {})
                                      \cup (IF to >= 3 THEN {"banned_media"} ELSE {})
  IN  IF to <= c.variant THEN c
      ELSE [c EXCEPT !.variant = to, !.data = Fresh(added) @@ @]

With(data, f, value) == (f :> value) @@ data

Counted(data, f, by) ==
  LET old == IF f \in DOMAIN data THEN data[f][2] ELSE 0 IN With(data, f, <<f, old + by>>)

By(ev) == IF ev.tag = "post_set_deleted" /\ ev.bytes[1][2] = 0 THEN -1 ELSE 1

AfterSet(k, c, ev) ==
  LET f == Sets[k][ev.tag] IN [c EXCEPT !.data = With(@, f, <<f, ev.bytes[1][2]>>)]
AfterCount(k, c, ev) == [c EXCEPT !.data = Counted(@, Counts[k][ev.tag], By(ev))]

Applied(k, c, ev) ==
  LET next == CASE ev.tag = "upgrade"           -> Upgraded(k, c, ev.version)
                [] ev.tag \in DOMAIN Sets[k]   -> AfterSet(k, c, ev)
                [] ev.tag \in DOMAIN Counts[k] -> AfterCount(k, c, ev)
                [] OTHER                        -> c
  IN  [next EXCEPT !.counter = @ + 1]

\* A copy made from the event that created the object.
EmptyProjection(k, v) == Fresh({BrowserLayout(k, v)[i] : i \in DOMAIN BrowserLayout(k, v)})

Born(k, ev) ==
  LET told == Peel(IF k = "thread" THEN GenesisThread ELSE GenesisPost, ev.bytes)
      by   == IF k = "thread" THEN <<>> ELSE ev.answers
  IN  [counter |-> 1, variant |-> ev.version, rootAt |-> 1, fieldsAt |-> 1,
       data |-> told @@ by @@ EmptyProjection(k, ev.version)]

---------------------------------------------------------------------------
(* The steps. *)

Event(tag, bytes, version) == [tag |-> tag, bytes |-> bytes, version |-> version, answers |-> <<>>]

\* An object an earlier version of the contract has left, or none yet.
Init ==
  /\ kind \in Kinds
  /\ obj \in {[version |-> v, fields |-> Fresh(FieldsAt(kind, v))] : v \in 1..Latest[kind]}
             \cup (IF kind = "board" THEN {} ELSE {None})
  /\ log = <<>> /\ meant = <<>> /\ read = NotRead /\ copy = None

\* A user asks for a thread or a post, with or without each part of it.
Asked(k) == [(IF k = "thread" THEN {"topic_hash", "self_admin"} ELSE {})
               \cup {"text_hash", "media_hashes", "name_hash", "votes", "multi_vote"} -> 0..1]

Tagged(values) == [f \in DOMAIN values |-> <<f, values[f]>>]

CreateThread(ask) ==
  LET args == Peel(PeeledThread, Write(NewThreadV3, Tagged(ask)))
      admin == <<"admin", args["self_admin"][2]>>
      made == [board |-> <<"board", 1>>, number |-> <<"number", 1>>,
               topic_hash |-> args["topic_hash"], admin |-> admin]
  IN  /\ kind = "thread" /\ obj = None /\ args # None
      /\ obj' = [version |-> 3, fields |-> made @@ Fresh(FieldsAt("thread", 3))]
      /\ log' = <<Event("genesis_v2", Write(EmittedThread, made), 3)>>
      /\ meant' = [topic_hash |-> <<"topic_hash", ask["topic_hash"]>>,
                   admin |-> <<"admin", ask["self_admin"]>>]
      /\ UNCHANGED <<kind, read, copy>>

\* The first post of a thread comes with the thread's event, a reply with its own.
CreatePost(ask, first) ==
  LET target == [thread |-> <<"thread", 1>>]
      opening == Peel(PeeledThread, Write(NewThreadV3,
                   Tagged(ask) @@ [topic_hash |-> <<"topic_hash", 0>>,
                                   self_admin |-> <<"self_admin", 0>>]))
      args == IF first
                THEN IF opening = None THEN None
                     ELSE Peel(PeeledPost, Write(PeeledPost, target @@ opening))
                ELSE Peel(PeeledPost, Write(NewPostV2, target @@ Tagged(ask)))
      said == [number |-> <<"number", 1>>, timestamp_ms |-> <<"timestamp_ms", 1>>] @@ args
      answers == [uid |-> <<"uid", 1>>, trip |-> <<"trip", 1>>, geo |-> <<"geo", 1>>,
                  sender |-> <<"sender", 1>>]
  IN  /\ kind = "post" /\ obj = None /\ args # None
      /\ obj' = [version |-> 3, fields |-> answers @@ said @@ Fresh(FieldsAt("post", 3))]
      /\ log' = <<[Event("genesis_v2", Write(EmittedPost, said), 3) EXCEPT !.answers = answers]>>
      /\ meant' = Tagged(ask)
      /\ UNCHANGED <<kind, read, copy>>

\* What the contract asks before it sets a field to its n-th value.
MaySet(tag, n) ==
  LET f == Sets[kind][tag]
  IN  /\ tag \in {"ban_media", "unban_media"} => n = (IF tag = "ban_media" THEN 1 ELSE 0)
      /\ obj.fields[f] # <<f, n>>
      /\ tag = "set_deleted" /\ kind # "post" => obj.fields["closed"] = <<"closed", 1>>
      /\ tag = "set_closed" => obj.fields["deleted"] = <<"deleted", 0>>

Logged(tag, bytes) == log' = Append(log, Event(tag, bytes, obj'.version))

\* Anything but an upgrade is refused until the object has the latest version.
CheckVersion == obj.version = Latest[kind]

Set(tag, n) ==
  /\ obj # None /\ Len(log) < MaxEvents
  /\ tag \in DOMAIN Sets[kind] /\ CheckVersion /\ MaySet(tag, n)
  /\ obj' = [obj EXCEPT !.fields[Sets[kind][tag]] = <<Sets[kind][tag], n>>]
  /\ Logged(tag, <<<<Types[tag], n>>>>)
  /\ UNCHANGED <<kind, meant, read, copy>>

Count(tag, n) ==
  /\ obj # None /\ Len(log) < MaxEvents
  /\ tag \in DOMAIN Counts[kind] /\ CheckVersion
  /\ tag # "post_set_deleted" => n = 1
  /\ LET f  == Counts[kind][tag]
         by == IF n = 1 THEN 1 ELSE -1
     IN  /\ obj.fields[f][2] + by >= 0
         /\ obj' = [obj EXCEPT !.fields[f] = <<f, @[2] + by>>]
  /\ Logged(tag, <<<<Types[tag], n>>>>)
  /\ UNCHANGED <<kind, meant, read, copy>>

Upgrade ==
  /\ obj # None /\ Len(log) < MaxEvents
  /\ obj' = IF CheckVersion THEN obj ELSE DoUpgrade(kind, obj)
  /\ Logged("upgrade", <<>>)
  /\ UNCHANGED <<kind, meant, read, copy>>

\* The two calls of one read, each in its own moment.
ReadRoot ==
  /\ obj # None /\ copy = None /\ read.rootAt < 0
  /\ read' = [read EXCEPT !.rootAt = Len(log), !.version = obj.version]
  /\ UNCHANGED <<kind, obj, log, meant, copy>>

ReadFields ==
  /\ obj # None /\ copy = None /\ read.fieldsAt < 0
  /\ read' = [read EXCEPT !.fieldsAt = Len(log), !.fields = obj.fields]
  /\ UNCHANGED <<kind, obj, log, meant, copy>>

Taken(r) ==
  LET bytes == Reply(kind, r)
      data  == IF bytes = None THEN None ELSE Decoded(kind, r.version, bytes)
  IN  IF data = None THEN None
      ELSE [counter |-> r.rootAt, variant |-> r.version, data |-> data,
            rootAt |-> r.rootAt, fieldsAt |-> r.fieldsAt]

\* A failed read leaves the page to be loaded again.
Load ==
  /\ BothRead(read) /\ copy = None
  /\ copy' = Taken(read) /\ read' = NotRead
  /\ UNCHANGED <<kind, obj, log, meant>>

Hear ==
  /\ copy # None /\ copy.counter < Len(log)
  /\ copy' = Applied(kind, copy, log[copy.counter + 1])
  /\ UNCHANGED <<kind, obj, log, meant, read>>

HearBirth ==
  /\ copy = None /\ read = NotRead
  /\ log # <<>> /\ log[1].tag = "genesis_v2"
  /\ copy' = Born(kind, log[1])
  /\ UNCHANGED <<kind, obj, log, meant, read>>

Next ==
  \/ \E ask \in Asked("thread") : CreateThread(ask)
  \/ \E ask \in Asked("post"), first \in BOOLEAN : CreatePost(ask, first)
  \/ \E tag \in DOMAIN Types, n \in 0..1 : Set(tag, n) \/ Count(tag, n)
  \/ Upgrade \/ ReadRoot \/ ReadFields \/ Load \/ Hear \/ HearBirth

Spec == Init /\ [][Next]_vars

---------------------------------------------------------------------------
(* The properties. *)

(* Every field of the object holds a value of that field, its names are     *)
(* those of its version, and the copy never runs ahead of the feed.         *)
TypeOK ==
  /\ kind \in Kinds
  /\ obj # None => /\ DOMAIN obj.fields = FieldsAt(kind, obj.version)
                   /\ \A f \in DOMAIN obj.fields : obj.fields[f][1] = f
  /\ copy # None => /\ copy.counter \in 0..Len(log)
                    /\ \A f \in DOMAIN copy.data : copy.data[f][1] = f

(* A page the reader keeps open shows what is on chain: a copy that has     *)
(* heard every event agrees with the object in every field the screens ask  *)
(* for, whatever version it was read at and whether it was read or born     *)
(* from its event - as long as its fields were not read before its root.    *)
(* What is counted event by event agrees only when the two were read at     *)
(* the same moment.                                                         *)
CopyAgrees ==
  copy # None /\ copy.counter = Len(log) /\ copy.rootAt <= copy.fieldsAt =>
    \A f \in DOMAIN obj.fields :
      copy.rootAt = copy.fieldsAt \/ f \notin CountedFields => Shown(kind, copy, f) = obj.fields[f]

(* A page fails to open only when an upgrade has come between the two       *)
(* calls of its read: every version on chain has a layout on both sides.    *)
FailsOnlyAcrossUpgrade ==
  BothRead(read) /\ Taken(read) = None =>
    \E i \in (read.fieldsAt + 1)..read.rootAt \cup (read.rootAt + 1)..read.fieldsAt :
      log[i].tag = "upgrade"

(* What is created is what was asked for: no two arguments of one type have *)
(* changed places between the form, the intent, the contract, the thread    *)
(* that opens with a post, and the object.                                  *)
CreatedAsAsked ==
  Len(log) = 1 /\ log[1].tag = "genesis_v2" =>
    \A f \in DOMAIN meant : obj.fields[f] = meant[f]

(* Every version of an object and of an event is read as it was written.    *)
FormatsSafety == TypeOK /\ CopyAgrees /\ FailsOnlyAcrossUpgrade /\ CreatedAsAsked
=============================================================================
