------------------------------- MODULE Offers -------------------------------
(***************************************************************************)
(* What the browser offers a moderator or an author, and what the contract *)
(* then makes of it.                                                       *)
(*                                                                         *)
(* Who may do what is written down twice.  The browser works out which     *)
(* roles the user's derived keys have (roles.ts), which deeds a role is    *)
(* good for (capabilities.ts), which menu shows them (PostMenu,            *)
(* threadModItems, MediaBox), and for each deed the event, the entry       *)
(* function of main.move with its objects, and the key that signs          *)
(* (modActions.ts, IntentBuilder.ts).  The contract decides on its own.    *)
(*                                                                         *)
(* One post of one thread is looked at.  A key is named after the role it  *)
(* is derived for; "op" is the key the thread was begun with and "author"  *)
(* the key of the post, when it is not the opening one.  Whether the post  *)
(* is recent enough for its author is a flag here, and the clocks of the   *)
(* browser and of the chain are taken to agree.                            *)
(***************************************************************************)
EXTENDS Naturals, Sequences, FiniteSets, SequencesExt, TLC

CONSTANTS
  MaxTitles, \* bound: titles the user holds at a time
  MaxBehind  \* bound: changes on the chain the page does not know of

OffersAssumption == MaxTitles \in Nat /\ MaxBehind \in Nat

VARIABLES
  chain,   \* the titles and flags on the chain
  page,    \* the same as the page has them, and which page it is
  viewer,  \* which post is looked at, and whether it and the thread are the user's
  behind   \* changes since the page was brought up to date

vars == <<chain, page, viewer, behind>>

Titles == {"forum_admin", "forum_mod", "board_mod", "thread_mod"}

Levels == {"thread", "board", "forum"}

\* The author's own key; that of the opening post is the key of the thread's.
OwnKey == IF viewer.op THEN "op" ELSE "author"

-----------------------------------------------------------------------------
\* main.move: the objects an entry function takes, those it changes marked with
\* an exclamation mark, and the tags it lets through.

Taken(base) ==
  CASE base = "forum_apply_intent_uid" -> <<"clock", "shard!", "forum!">>
    [] base = "forum_apply_post_intent_uid" ->
         <<"clock", "shard!", "forum!", "board", "thread", "post!">>
    [] base = "board_apply_intent_uid" -> <<"clock", "shard!", "forum", "board!">>
    [] base = "board_apply_thread_intent_uid" ->
         <<"clock", "shard!", "forum", "board!", "thread!">>
    [] base = "board_apply_post_intent_uid" ->
         <<"clock", "shard!", "forum", "board!", "thread", "post!">>
    [] base = "thread_apply_intent_uid" -> <<"shard!", "forum", "board", "thread!">>
    [] base = "thread_apply_post_intent_uid" ->
         <<"clock", "shard!", "forum", "board", "thread!", "post!">>
    [] base \in {"post_apply_intent_uid", "post_apply_intent_uid_ip32"} ->
         <<"clock", "shard!", "forum", "board", "thread", "post!">>

LetThrough(fn) ==
  CASE fn.base = "forum_apply_intent_uid" ->
         {"upgrade", "add_moderator", "del_moderator", "new_board", "set_timestamp_precision",
          "ban", "unban"}
    [] fn.base \in {"forum_apply_post_intent_uid", "board_apply_post_intent_uid"} ->
         {"ban", "unban"}
    [] fn.base = "board_apply_intent_uid" ->
         IF "captcha" \in fn.with THEN {"new_thread_v3"}
         ELSE {"new_thread_migrate_v2"} \cup
              IF fn.with # {} THEN {}
              ELSE {"upgrade", "add_moderator", "del_moderator", "set_max_media",
                    "set_bump_limit", "set_closed", "set_deleted", "set_description",
                    "set_ignore_forum_bans", "set_reactions", "set_pinned", "ban", "unban"}
    [] fn.base = "board_apply_thread_intent_uid" ->
         IF "captcha" \in fn.with THEN {"new_post_v2"} ELSE {"new_post_migrate_v2"}
    [] fn.base = "thread_apply_intent_uid" ->
         {"upgrade", "add_moderator", "del_moderator", "set_closed", "set_deleted",
          "set_topic", "set_admin", "ban", "unban"}
    [] fn.base = "thread_apply_post_intent_uid" ->
         {"ban", "unban", "post_set_deleted", "post_set_text"}
    [] fn.base = "post_apply_intent_uid" -> {"upgrade", "ban_media", "unban_media"}
    [] fn.base = "post_apply_intent_uid_ip32" -> {"set_reaction_v2", "vote_v2"}

-----------------------------------------------------------------------------
\* IntentBuilder: the entry function and the objects for an event.

\* Bans, deletions and texts of a post go through the object of their namespace
\* with the post beside it; everything else through that object alone.
ResolveFunction(ns, tag, options, hasPost) ==
  LET onPost == hasPost /\ tag \in {"ban", "unban", "post_set_deleted", "post_set_text"}
      counted == tag \in {"set_reaction_v2", "vote_v2"}
      posting == tag \in {"new_post_v2", "new_post_migrate_v2"}
      opening == tag \in {"new_thread_v3", "new_thread_migrate_v2"}
      asked == IF tag \in {"new_post_v2", "new_thread_v3"} THEN options ELSE options \ {"captcha"}
  IN  [base |-> CASE posting -> "board_apply_thread_intent_uid"
                  [] ns = "post" -> IF counted THEN "post_apply_intent_uid_ip32"
                                    ELSE "post_apply_intent_uid"
                  [] ns # "post" /\ ~posting ->
                       IF onPost THEN ns \o "_apply_post_intent_uid" ELSE ns \o "_apply_intent_uid",
       with |-> IF posting \/ opening THEN asked ELSE {}]

ResolveObjects(fn) ==
  CASE fn.base = "forum_apply_intent_uid" -> <<"clock", "shard!", "forum!">>
    [] fn.base = "forum_apply_post_intent_uid" ->
         <<"clock", "shard!", "forum!", "board", "thread", "post!">>
    [] fn.base = "board_apply_intent_uid" -> <<"clock", "shard!", "forum", "board!">>
    [] fn.base = "board_apply_thread_intent_uid" ->
         <<"clock", "shard!", "forum", "board!", "thread!">>
    [] fn.base = "board_apply_post_intent_uid" ->
         <<"clock", "shard!", "forum", "board!", "thread", "post!">>
    [] fn.base = "thread_apply_intent_uid" -> <<"shard!", "forum", "board", "thread!">>
    [] fn.base = "thread_apply_post_intent_uid" ->
         <<"clock", "shard!", "forum", "board", "thread!", "post!">>
    [] OTHER -> <<"clock", "shard!", "forum", "board", "thread", "post!">>

\* The event of a deed, and whether the post is named with it.
EventOf(act, level) ==
  CASE act \in {"delete", "restore"} -> <<"thread", "post_set_deleted", TRUE>>
    [] act = "edit" -> <<"thread", "post_set_text", TRUE>>
    [] act \in {"ban_media", "unban_media"} -> <<"post", act, TRUE>>
    [] act \in {"ban", "unban"} -> <<level, act, TRUE>>
    [] act = "ban_uid" -> <<level, "ban", FALSE>>
    [] act \in {"close", "open", "close_delete"} -> <<"thread", "set_closed", FALSE>>
    [] act \in {"delete_thread", "restore_thread"} -> <<"thread", "set_deleted", FALSE>>
    [] act = "edit_topic" -> <<"thread", "set_topic", FALSE>>
    [] act = "pin" -> <<"board", "set_pinned", FALSE>>
    [] act = "board_core" -> <<"board", "set_bump_limit", FALSE>>
    [] act = "board_soft" -> <<"board", "set_description", FALSE>>
    [] act = "react" -> <<"post", "set_reaction_v2", TRUE>>
    [] act = "reply" -> <<"board", "new_post_v2", FALSE>>
    [] act = "new_thread" -> <<"board", "new_thread_v3", FALSE>>
    [] act = "upgrade" -> <<level, "upgrade", level = "post">>

\* build: what becomes of a deed; a post may carry a flag and a tripcode.
Options(act) ==
  IF act \in {"reply", "new_thread"}
  THEN {{"captcha"} \cup extras : extras \in SUBSET {"geo", "tripcode"}} ELSE {{}}

WellFormed(act, level) ==
  \A options \in Options(act) :
    LET event == EventOf(act, level)
        fn == ResolveFunction(event[1], event[2], options, event[3])
    IN  /\ event[2] \in LetThrough(fn)
        /\ ResolveObjects(fn) = Taken(fn.base)

-----------------------------------------------------------------------------
\* The contract: forum_apply, board_apply, thread_apply, post_apply.

ForumStaff(key) == key \in {"forum_admin", "forum_mod"} \cap chain.titles
BoardStaff(key) == ForumStaff(key) \/ key \in {"board_mod"} \cap chain.titles

\* thread.admin is nobody, the key the user derives for the office, the key the
\* thread was begun with, or somebody else's.
ThreadOwner(key) ==
  \/ BoardStaff(key)
  \/ key = "thread_admin" /\ chain.admin = "derived"
  \/ key = "op" /\ chain.admin = "op"

ThreadStaff(key) == ThreadOwner(key) \/ key \in {"thread_mod"} \cap chain.titles

CanSelfModerate(key) == key = OwnKey /\ chain.recent

\* A ban of the post is entered at a level and in the post itself.
MayBan(key, level) ==
  CASE level = "forum" -> ForumStaff(key)
    [] level = "board" -> BoardStaff(key)
    [] level = "thread" -> ThreadStaff(key)

Accepted(deed) ==
  LET key == deed.key
      staff == ThreadStaff(key)
  IN  /\ CASE deed.act \in {"delete", "restore"} ->
                /\ staff \/ CanSelfModerate(key)
                /\ chain.deleted = (deed.act = "restore")
           [] deed.act = "edit" -> staff \/ CanSelfModerate(key)
           [] deed.act = "ban_media" ->
                (staff \/ CanSelfModerate(key)) /\ chain.media = "shown"
           [] deed.act = "unban_media" -> staff /\ chain.media = "banned"
           [] deed.act = "ban" -> MayBan(key, deed.level) /\ chain.banned = "no"
           [] deed.act = "unban" -> MayBan(key, deed.level) /\ chain.banned = deed.level
           [] deed.act = "ban_uid" -> MayBan(key, deed.level)
           [] deed.act \in {"close", "open"} ->
                /\ staff
                /\ chain.closed = (deed.act = "open") /\ ~chain.removed
           [] deed.act = "restore_thread" -> staff /\ chain.removed /\ chain.closed
           [] deed.act = "delete_thread" -> staff /\ ~chain.removed /\ chain.closed
           [] deed.act = "close_delete" -> staff /\ ~chain.closed
           [] deed.act = "edit_topic" -> staff
           [] deed.act \in {"pin", "board_soft"} -> BoardStaff(key)
           [] deed.act = "board_core" -> ForumStaff(key)
      /\ WellFormed(deed.act, deed.level)

Effect(deed) ==
  CASE deed.act \in {"delete", "restore"} -> [chain EXCEPT !.deleted = deed.act = "delete"]
    [] deed.act = "ban_media" -> [chain EXCEPT !.media = "banned"]
    [] deed.act = "unban_media" -> [chain EXCEPT !.media = "shown"]
    [] deed.act = "ban" -> [chain EXCEPT !.banned = deed.level]
    [] deed.act = "unban" -> [chain EXCEPT !.banned = "no"]
    [] deed.act \in {"close", "open"} -> [chain EXCEPT !.closed = deed.act = "close"]
    [] deed.act \in {"delete_thread", "restore_thread"} ->
         [chain EXCEPT !.removed = deed.act = "delete_thread"]
    [] deed.act = "close_delete" -> [chain EXCEPT !.closed = TRUE, !.removed = TRUE]
    [] OTHER -> chain

-----------------------------------------------------------------------------
\* The browser, given a page p: roles.ts.

ForumKinds == {"forum_admin", "forum_mod"}
BoardKinds == ForumKinds \cup {"board_mod"}
AnyKind == BoardKinds \cup {"thread_admin", "thread_mod"}

\* The user's own key of the office, or the one it began the thread with.
HasAdmin(p) == p.admin = "derived" \/ (p.admin = "op" /\ viewer.opMine)

\* The page of a board knows no thread's moderators.
DetectRoles(p) ==
  SelectSeq(<<"forum_mod", "board_mod", "thread_mod", "thread_admin", "forum_admin">>,
            LAMBDA kind : CASE kind = "thread_mod" -> p.kind = "thread" /\ kind \in p.titles
                            [] kind = "thread_admin" -> p.kind = "thread" /\ HasAdmin(p)
                            [] OTHER -> kind \in p.titles)

\* withThreadRoles(detectViewRoles, rolesForThread)
ThreadRoles(p) ==
  SelectSeq(DetectRoles(p), LAMBDA kind : kind \in BoardKinds)
    \o SelectSeq(<<"thread_mod", "thread_admin">>,
                 LAMBDA kind : IF kind = "thread_mod" THEN kind \in p.titles /\ p.kind = "thread"
                               ELSE HasAdmin(p))

\* The first role that is allowed signs, the office of a thread's admin with the
\* key it was given to.
RoleForMutant(p, allowed, roles) ==
  LET fit == SelectSeq(roles, LAMBDA kind : kind \in allowed)
  IN  IF fit = <<>> THEN "none" ELSE fit[1]

RoleFor(p, allowed, roles) ==
  LET fit == SelectSeq(roles, LAMBDA kind : kind \in allowed)
  IN  CASE fit = <<>> -> "none"
        [] fit # <<>> -> IF fit[1] = "thread_admin" /\ p.admin = "op" THEN "op" ELSE fit[1]

\* capabilities.ts

CanPostAction(p) ==
  (viewer.mine /\ p.recent) \/ RoleFor(p, AnyKind, DetectRoles(p)) # "none"

BanKinds(level) ==
  CASE level = "forum" -> ForumKinds [] level = "board" -> BoardKinds [] level = "thread" -> AnyKind

CanBan(p, level) == RoleFor(p, BanKinds(level), DetectRoles(p)) # "none"

\* signPost
PostSigner(p) ==
  IF viewer.mine /\ chain.recent THEN OwnKey ELSE RoleFor(p, AnyKind, DetectRoles(p))

BanSigner(p, level) == RoleFor(p, BanKinds(level), DetectRoles(p))

\* A deed, and the menu it was chosen from.
Deed(act, level, key, menu) == [act |-> act, level |-> level, key |-> key, menu |-> menu]

\* Records show the opening post of a deleted thread as deleted.
RecordDeleted(p) == p.deleted \/ (viewer.op /\ p.removed)

PostDeed(p, act) == Deed(act, "post", PostSigner(p), "post")

ThreadItems(p, deleted, menu) ==
  LET item(act) == Deed(act, "thread", RoleFor(p, AnyKind, ThreadRoles(p)), menu)
      pin == Deed("pin", "board", RoleFor(p, BoardKinds, DetectRoles(p)), menu)
      open == IF p.closed THEN {item("open"), item("delete_thread")}
              ELSE {item("close"), item("close_delete")}
      items == IF deleted THEN {item("restore_thread")} ELSE open \cup {item("edit_topic"), pin}
  IN  {d \in items : d.key # "none"}

\* Banning by the mark of a post's author: which thread is meant is known on the
\* page of a thread only.
BanUidItems(p) ==
  IF RoleFor(p, BoardKinds, DetectRoles(p)) = "none" THEN {}
  ELSE {Deed("ban_uid", level,
             IF level = "thread" /\ p.kind = "board" THEN "none" ELSE BanSigner(p, level), "uid") :
          level \in {l \in Levels : CanBan(p, l)}}

PostItems(p) ==
  LET ban == IF RecordDeleted(p) \/ p.banned # "no" THEN {}
             ELSE {Deed("ban", l, BanSigner(p, l), "post") : l \in {x \in Levels : CanBan(p, x)}}
      unban == IF p.banned \notin Levels \/ ~CanBan(p, p.banned) THEN {}
               ELSE {Deed("unban", p.banned, BanSigner(p, p.banned), "post")}
      acts == IF ~CanPostAction(p) THEN {}
              ELSE IF RecordDeleted(p) THEN {PostDeed(p, "restore")} ELSE {PostDeed(p, "delete")}
  IN  ban \cup unban \cup acts

MediaItems(p) ==
  LET unban == Deed("unban_media", "post", RoleFor(p, AnyKind, DetectRoles(p)), "post")
  IN  CASE RecordDeleted(p) -> {}
        [] ~RecordDeleted(p) /\ p.media = "shown" /\ CanPostAction(p) -> {PostDeed(p, "ban_media")}
        [] ~RecordDeleted(p) /\ p.media = "banned" /\ unban.key # "none" -> {unban}
        [] OTHER -> {}

\* The posts that are selected are deleted or restored with the key of a role,
\* and banned whatever they are.
SelectionItems(p) ==
  IF p.kind = "board" \/ RoleFor(p, AnyKind, DetectRoles(p)) = "none" THEN {}
  ELSE {Deed(IF p.deleted THEN "restore" ELSE "delete", "post",
             RoleFor(p, AnyKind, DetectRoles(p)), "selection")}
         \cup {Deed("ban", l, BanSigner(p, l), "selection") : l \in {x \in Levels : CanBan(p, x)}}

BoardItems(p) ==
  {d \in {Deed("board_core", "board", RoleFor(p, ForumKinds, DetectRoles(p)), "board"),
          Deed("board_soft", "board", RoleFor(p, BoardKinds, DetectRoles(p)), "board")} :
     d.key # "none" /\ p.kind = "board"}

Offered(p) ==
  BoardItems(p) \cup MediaItems(p) \cup SelectionItems(p)
    \cup (IF p.kind = "thread" /\ CanPostAction(p) /\ ~RecordDeleted(p)
          THEN {PostDeed(p, "edit")} ELSE {})
    \cup (IF p.kind = "thread" THEN ThreadItems(p, p.removed, "thread") \cup BanUidItems(p)
          ELSE {})
    \cup (IF viewer.op THEN ThreadItems(p, RecordDeleted(p), "post") \cup BanUidItems(p)
          ELSE PostItems(p))

-----------------------------------------------------------------------------
\* The page of a kind, up to date.
Seen(kind) == [kind |-> kind] @@ chain

Current == page = Seen(page.kind)

Init ==
  /\ viewer \in [op : BOOLEAN, mine : BOOLEAN, opMine : BOOLEAN]
  /\ viewer.op => viewer.mine = viewer.opMine
  /\ \E media \in {"none", "shown"}, titles \in {{}, {"forum_admin"}} :
       chain = [titles |-> titles, admin |-> "nobody", closed |-> FALSE, removed |-> FALSE,
                deleted |-> FALSE, banned |-> "no", media |-> media, recent |-> TRUE]
  /\ \E kind \in {"thread", "board"} : page = Seen(kind)
  /\ behind = 0

\* Somebody else changes what the chain holds.
Change ==
  /\ behind < MaxBehind /\ behind' = behind + 1
  /\ UNCHANGED <<page, viewer>>

Appoint ==
  /\ Change
  /\ \/ \E title \in Titles \ {"forum_admin"} :
          LET now == (chain.titles \ {title}) \cup ({title} \ chain.titles)
          IN  Cardinality(now) <= MaxTitles /\ chain' = [chain EXCEPT !.titles = now]
     \/ \E admin \in {"nobody", "derived", "op", "another"} \ {chain.admin} :
          chain' = [chain EXCEPT !.admin = admin]

Moderate ==
  /\ Change
  /\ \/ chain' = [chain EXCEPT !.closed = ~@] /\ ~chain.removed
     \/ chain' = [chain EXCEPT !.removed = ~@] /\ chain.closed
     \/ chain' = [chain EXCEPT !.deleted = ~@]
     \/ chain.banned = "no" /\ \E level \in Levels : chain' = [chain EXCEPT !.banned = level]
     \/ chain.banned # "no" /\ chain' = [chain EXCEPT !.banned = "no"]
     \/ chain.media = "shown" /\ chain' = [chain EXCEPT !.media = "banned"]
     \/ chain.media = "banned" /\ chain' = [chain EXCEPT !.media = "shown"]

Age ==
  /\ chain.recent /\ Change
  /\ chain' = [chain EXCEPT !.recent = FALSE]

\* The user's own deed, while the page may be out of date: then it is refused,
\* or there is nobody to sign it.
Do(deed) ==
  /\ deed.key # "none" /\ Effect(deed) # chain
  /\ Accepted(deed)
  /\ behind' = behind + 1
  /\ chain' = Effect(deed)
  /\ UNCHANGED <<page, viewer>>

\* Events bring the flags up to date, a timer whether the post is recent; the
\* roles are those of the page as it was loaded.
Follow ==
  /\ ~Current
  /\ page' = [Seen(page.kind) EXCEPT !.titles = page.titles,
                                     !.admin = IF page.kind = "board" THEN @ ELSE page.admin]
  /\ behind' = IF page' = Seen(page.kind) THEN 0 ELSE behind
  /\ UNCHANGED <<chain, viewer>>

Load ==
  /\ \E kind \in {"thread", "board"} : page' = Seen(kind)
  /\ behind' = 0
  /\ UNCHANGED <<chain, viewer>>

Next ==
  \/ Appoint \/ Moderate \/ Age \/ Follow \/ Load
  \/ behind < MaxBehind /\ \E deed \in Offered(page) : Do(deed)

Spec == Init /\ [][Next]_vars

-----------------------------------------------------------------------------
\* Well-typed states.
Flags ==
  [titles : SUBSET Titles, admin : {"nobody", "derived", "op", "another"}, closed : BOOLEAN,
   removed : BOOLEAN, deleted : BOOLEAN, banned : {"no"} \cup Levels,
   media : {"none", "shown", "banned"}, recent : BOOLEAN]

TypeOK ==
  /\ chain \in Flags
  /\ [f \in DOMAIN chain |-> page[f]] \in Flags
  /\ viewer \in [op : BOOLEAN, mine : BOOLEAN, opMine : BOOLEAN]
  /\ behind \in 0 .. MaxBehind

\* Everything a page that is up to date offers, the contract accepts from the
\* key that signs it, and every intent the browser builds names an entry
\* function that takes its objects and lets its tag through (the tables of
\* capabilities.ts and IntentBuilder.ts against the checks of main.move and the
\* _apply modules).  Three offers are refused nevertheless: the menu of an
\* opening post that was deleted offers to restore its thread, which was not
\* (records.ts:128, threadModItems.ts:12); a ban by mark from the page of a board
\* offers the level of a thread, first of all (modals.tsx:94); a selection may be
\* banned although one of its posts is banned (ThreadSelectionMenu.tsx:41).
OffersHonoured ==
  Current =>
    /\ \A act \in {"reply", "new_thread", "react"} : WellFormed(act, "post")
    /\ \A level \in Levels \cup {"post"} : WellFormed("upgrade", level)
    /\ \A deed \in Offered(page) :
         \/ deed.key # "none" /\ Accepted(deed)
         \/ viewer.op /\ deed.menu = "post" /\ deed.act = "restore_thread" /\ ~chain.removed
         \/ deed.menu = "uid" /\ deed.level = "thread" /\ page.kind = "board"
         \/ deed.menu = "selection" /\ deed.act = "ban" /\ chain.banned # "no"

UsersKeys ==
  Titles \cup {"thread_admin"} \cup (IF viewer.opMine THEN {"op"} ELSE {})
         \cup (IF viewer.mine THEN {OwnKey} ELSE {})

\* Whoever has the authority is given the control: on the page of a thread that
\* is up to date, whatever the contract would let one of the user's keys do to a
\* post or a thread that is not deleted is offered.  Not offered are the bans and
\* deletions that the menu of an opening post leaves out (PostMenu.tsx:26-36), and
\* the ban by mark to the staff of a single thread (capabilities.ts:50).
StaffCanAct ==
  Current /\ page.kind = "thread" /\ ~chain.deleted /\ ~chain.removed =>
    LET offered == {<<d.act, d.level>> : d \in Offered(page)} IN
    \A act \in {"delete", "edit", "ban_media", "unban_media", "ban", "unban", "close", "open",
               "delete_thread", "close_delete", "edit_topic", "pin", "ban_uid"},
       key \in UsersKeys :
     \A level \in (IF act \in {"ban", "unban", "ban_uid"} THEN Levels ELSE {"thread"}) :
      \/ \E deed \in offered :
           deed[1] = act /\ (act \in {"ban", "unban", "ban_uid"} => deed[2] = level)
      \/ viewer.op /\ act \in {"delete", "unban"}
      \/ act = "ban_uid" /\ ~BoardStaff(key)
      \/ ~Accepted(Deed(act, level, key, "post"))

UndoneBy(act) ==
  CASE act = "delete" -> "restore" [] act = "restore" -> "delete"
    [] act = "ban" -> "unban" [] act = "unban" -> "ban"
    [] act = "ban_media" -> "unban_media" [] act = "unban_media" -> "ban_media"
    [] act = "close" -> "open" [] act = "open" -> "close"
    [] act = "delete_thread" -> "restore_thread" [] act = "restore_thread" -> "delete_thread"
    [] act = "close_delete" -> "restore_thread"

\* Whatever the user does from the page of a thread it can also undo from there,
\* as long as its roles last and its post is recent: what the deed makes of the
\* post or the thread offers the deed that undoes it.  Not so for the author who
\* bans a picture of its own post (post_apply.move:102), for a ban of an opening
\* post, which no menu lifts (PostMenu.tsx:26-36), and for a post that is deleted
\* and unbanned, which cannot be banned again.
DeedsCanBeUndone ==
  Current /\ page.kind = "thread" =>
    \A deed \in Offered(page) :
      \/ Effect(deed) = chain
      \/ deed.act = "ban_media" /\ deed.key = OwnKey
      \/ viewer.op /\ deed.act = "ban"
      \/ deed.act = "unban" /\ chain.deleted
      \/ deed.key = "none" \/ ~Accepted(deed)
      \/ \E back \in Offered([kind |-> "thread"] @@ Effect(deed)) : back.act = UndoneBy(deed.act)

\* Menus, capabilities and the contract agree on who may do what.
OffersSafety == TypeOK /\ OffersHonoured /\ StaffCanAct /\ DeedsCanBeUndone
=============================================================================
