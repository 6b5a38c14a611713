------------------------------- MODULE Markup -------------------------------
(***************************************************************************)
(* The text of a post: the markup a user writes (bbcode.ts), the parts it  *)
(* becomes, the secrets among them (secret.ts, SecretSpan.tsx) and the     *)
(* text an edit of the post begins with (posts.ts, partsToEditText).       *)
(*                                                                         *)
(* A text is a sequence of tokens: the tags, the marks that point at a     *)
(* post, the pieces of its address, and words.  "[b]" stands for the tags  *)
(* whose end is found by counting, "[url]" and "[fold]" for those with an  *)
(* address and a title.  A post's address is <<forum, board, number>>; a   *)
(* key is that of the post it signed.  An edit is signed with the post's   *)
(* own key, by its author in the first ten minutes, or with the key of a   *)
(* role: a moderator's, or the author's own when the time is over.         *)
(***************************************************************************)
EXTENDS Naturals, Sequences, SequencesExt

CONSTANTS
  Texts,     \* what is written first
  Tokens,    \* what an edit may add
  Existing,  \* addresses of the posts there are
  None,
  MaxChanges \* bound: tokens added or removed, pages loaded

MarkupAssumption == MaxChanges \in Nat

VARIABLES
  phase,  \* "writing", "posted" or "editing"
  text,   \* in the box
  refs,   \* the secrets the text names, by number
  post,   \* the parts of the post
  page,   \* the posts of the board that the page has loaded
  left    \* what is left of the bound

vars == <<phase, text, refs, post, page, left>>

Plain(s) == [kind |-> "plain", text |-> s]
Reply(p) == [kind |-> "reply", to |-> p]
SecretRef(i) == [kind |-> "secretRef", index |-> i]
Node(kind, parts) == [kind |-> kind, parts |-> parts]
Secret(keys, by, parts) == [kind |-> "secret", keys |-> keys, by |-> by, parts |-> parts]

Signers == {"sender", "role"}

Kinds == {"[b]", "[url]", "[fold]", "[secret]"}

Close == [k \in Kinds |->
  CASE k = "[b]" -> "[/b]" [] k = "[url]" -> "[/url]" [] k = "[fold]" -> "[/fold]"
    [] OTHER -> "[/secret]"]

SecretTags == <<"[secret_1]", "[secret_2]", "[secret_3]">>

Boards == {"b/", "c/"}
Numbers == {"1", "2"}
RefTokens == Boards \cup Numbers \cup {"f/", "."}

-----------------------------------------------------------------------------
\* References.

\* How many tokens after ">>" are taken for an address.
RefLength(s) == LET ends == {i \in 1..Len(s) : s[i] \notin RefTokens} IN
  IF ends = {} THEN Len(s) ELSE (CHOOSE i \in ends : \A j \in ends : i <= j) - 1

\* Dots at its end do not belong to it.
Address(s) == LET last == {i \in 1..Len(s) : s[i] # "."} IN
  IF last = {} THEN <<>> ELSE SubSeq(s, 1, CHOOSE i \in last : \A j \in last : j <= i)

\* What an address without a forum or a board means, and whether there is such a post.
Resolve(a) ==
  LET p == CASE Len(a) = 1 -> <<"here", "b/", a[1]>>
             [] Len(a) = 2 -> <<"here", a[1], a[2]>>
             [] Len(a) = 3 -> <<a[1], a[2], a[3]>>
             [] OTHER -> None
  IN IF p \in Existing THEN p ELSE None

\* What is kept of a post to name it by: the board and the number.
Hint(p) == <<p[2], p[3]>>

-----------------------------------------------------------------------------
\* From text to parts.

\* The end of a tag that may hold others of its kind; 0 if it has none.
MatchingClose(s, open, close) ==
  LET Depth(i) == 1 + Len(SelectSeq(SubSeq(s, 1, i), LAMBDA x : x = open))
                    - Len(SelectSeq(SubSeq(s, 1, i), LAMBDA x : x = close))
      ends == {i \in 1..Len(s) : s[i] = close /\ Depth(i) = 0}
  IN IF ends = {} THEN 0 ELSE CHOOSE i \in ends : \A j \in ends : i <= j

\* The end of a tag that ends at the first one.
FirstClose(s, close) == LET ends == {i \in 1..Len(s) : s[i] = close} IN
  IF ends = {} THEN 0 ELSE CHOOSE i \in ends : \A j \in ends : i <= j

EndOf(kind, s) == IF kind \in {"[b]", "[fold]"} THEN MatchingClose(s, kind, Close[kind])
                  ELSE FirstClose(s, Close[kind])

\* Text before parts: text next to text is one part.
Before(s, parts) ==
  IF parts # <<>> /\ Head(parts).kind = "plain"
  THEN <<Plain(s \o Head(parts).text)>> \o Tail(parts)
  ELSE <<Plain(s)>> \o parts

RECURSIVE Parse(_)
Parse(s) ==
  IF s = <<>> THEN <<>>
  ELSE LET head == Head(s)
           rest == Tail(s)
           After(i) == SubSeq(rest, i + 1, Len(rest))
       IN CASE head = ">>" ->
                 LET n == RefLength(rest)
                     p == Resolve(Address(SubSeq(rest, 1, n)))
                 IN IF p # None THEN <<Reply(p)>> \o Parse(After(n))
                    ELSE Before(<<head>>, Parse(rest))
            [] head \in ToSet(SecretTags) ->
                 <<SecretRef(CHOOSE i \in DOMAIN SecretTags : SecretTags[i] = head)>> \o Parse(rest)
            [] head \in Kinds /\ EndOf(head, rest) # 0 ->
                 LET end == EndOf(head, rest)
                 IN <<Node(head, Parse(SubSeq(rest, 1, end - 1)))>> \o Parse(After(end))
            [] OTHER -> Before(<<head>>, Parse(rest))

\* The posts that parts reply to.  What is written in a secret is a part like others
\* until it is locked, and not seen from then on.
RECURSIVE Replies(_)
Replies(parts) == UNION {
  IF parts[i].kind = "reply" THEN {parts[i].to}
  ELSE IF parts[i].kind \in Kinds THEN Replies(parts[i].parts) ELSE {} : i \in DOMAIN parts}

\* The parts of the post: secrets are locked with the signer's key for the keys,
\* or taken from the post that is edited; a number that names none of its secrets
\* is left out.
RECURSIVE Converted(_, _, _, _)
Converted(parts, keys, by, known) ==
  FlattenSeq([i \in DOMAIN parts |->
    LET p == parts[i] IN
    CASE p.kind = "secretRef" -> IF p.index \in DOMAIN known THEN <<known[p.index]>> ELSE <<>>
      [] p.kind = "[secret]" -> <<Secret(keys, by, Converted(p.parts, keys, by, known))>>
      [] p.kind \in Kinds \ {"[secret]"} -> <<Node(p.kind, Converted(p.parts, keys, by, known))>>
      [] OTHER -> <<p>>])

\* The keys are those of the posts replied to that the page has loaded: of any
\* other post only the address is known.
Finalized(s, by, known) == LET parts == Parse(s) IN
  Converted(parts, Replies(parts) \cap page, by, known)

-----------------------------------------------------------------------------
\* From parts to text.

\* The secrets in the order of the text; what they hold is not seen.
RECURSIVE SecretsOf(_)
SecretsOf(parts) == FlattenSeq([i \in DOMAIN parts |->
  IF parts[i].kind = "secret" THEN <<parts[i]>>
  ELSE IF parts[i].kind \in Kinds THEN SecretsOf(parts[i].parts) ELSE <<>>])

\* The text of parts before which n secrets are numbered.
RECURSIVE Rendered(_, _)
Rendered(parts, n) ==
  IF parts = <<>> THEN <<>>
  ELSE LET p == Head(parts)
           s == CASE p.kind = "plain" -> p.text
                  [] p.kind = "reply" -> <<">>">> \o Hint(p.to)
                  [] p.kind = "secret" -> <<SecretTags[n + 1]>>
                  [] OTHER -> <<p.kind>> \o Rendered(p.parts, n) \o <<Close[p.kind]>>
       IN s \o Rendered(Tail(parts), n + Len(SecretsOf(<<p>>)))

\* A bug to look for: each part numbers its secrets from one.
EditTextMutant(parts) == FlattenSeq([i \in DOMAIN parts |-> Rendered(<<parts[i]>>, 0)])

EditText(parts) == Rendered(parts, 0)

-----------------------------------------------------------------------------
Pages == {{p \in Existing : p[1] = "here" /\ p[2] = "b/" /\ p[3] \in nums} : nums \in SUBSET Numbers}

Init == /\ phase = "writing"
        /\ text \in Texts
        /\ refs = <<>>
        /\ post = <<>>
        /\ page \in Pages
        /\ left = MaxChanges

\* A post is written, or an edit of it sent; a post without parts has no text.
Submit(by) ==
  /\ phase = "writing" => by = "sender"
  /\ phase \in {"writing", "editing"}
  /\ phase' = "posted"
  /\ post' = Finalized(text, by, refs)
  /\ UNCHANGED <<text, refs, page, left>>

\* The post is opened for an edit.
Open == /\ phase = "posted"
        /\ Len(SecretsOf(post)) <= Len(SecretTags)
        /\ phase' = "editing"
        /\ text' = EditText(post)
        /\ refs' = SecretsOf(post)
        /\ UNCHANGED <<post, page, left>>

Change == phase = "editing" /\ left > 0 /\ left' = left - 1

Insert(i, t) == /\ Change
                /\ text' = InsertAt(text, i, t)
                /\ UNCHANGED <<phase, refs, post, page>>

Delete(i) == /\ Change
             /\ text' = RemoveAt(text, i)
             /\ UNCHANGED <<phase, refs, post, page>>

\* The page loads or drops posts while the user writes.
PageLoads == /\ Change
             /\ page' \in Pages \ {page}
             /\ UNCHANGED <<phase, text, refs, post>>

Next == \/ \E by \in Signers : Submit(by)
        \/ Open \/ PageLoads
        \/ \E i \in 1..Len(text) + 1, t \in Tokens : Insert(i, t)
        \/ \E i \in 1..Len(text) : Delete(i)

-----------------------------------------------------------------------------
\* Readers, and what a post holds.

\* A reader's key and the key of the post's sender open what was locked with the
\* one for the other: nothing opens what a role's key has locked.
Unlocks(p, secret) == secret.by = "sender" /\ p \in secret.keys

\* The posts whose keys a reader tries, as far as they are the reader's own: those
\* the post replies to, where the reader can see it.
Tried == Replies(post)

Opens(p, secret) == p \in Tried /\ Unlocks(p, secret)

\* All of it, as if it were written anew.
RECURSIVE AllTokens(_)
AllTokens(parts) == FlattenSeq([i \in DOMAIN parts |->
  LET p == parts[i] IN
  CASE p.kind = "plain" -> p.text
    [] p.kind = "reply" -> <<">>">> \o Hint(p.to)
    [] p.kind = "secret" -> <<"[secret]">> \o AllTokens(p.parts) \o <<"[/secret]">>
    [] OTHER -> <<p.kind>> \o AllTokens(p.parts) \o <<Close[p.kind]>>])

RECURSIVE PlainTokens(_)
PlainTokens(parts) == UNION {
  CASE parts[i].kind = "plain" -> ToSet(parts[i].text)
    [] parts[i].kind = "reply" -> {}
    [] OTHER -> PlainTokens(parts[i].parts) : i \in DOMAIN parts}

TagTokens == Kinds \cup {Close[k] : k \in Kinds}

\* Two texts next to each other, which a number of no secret has kept apart.
RECURSIVE Joined(_)
Joined(parts) ==
  IF parts = <<>> THEN <<>>
  ELSE LET p == Head(parts)
           rest == Joined(Tail(parts))
       IN IF p.kind = "plain" THEN Before(p.text, rest)
          ELSE IF p.kind \in Kinds THEN <<Node(p.kind, Joined(p.parts))>> \o rest
          ELSE <<p>> \o rest

RECURSIVE Glued(_)
Glued(parts) ==
  \/ \E i \in 1..Len(parts) - 1 :
       /\ parts[i].kind \in {"plain", "reply"} /\ parts[i + 1].kind = "plain"
       /\ Head(parts[i + 1].text) \in RefTokens
  \/ \E i \in DOMAIN parts : parts[i].kind \in Kinds /\ Glued(parts[i].parts)

-----------------------------------------------------------------------------
(***************************************************************************)
(* A post that is opened for an edit and saved as it is stays what it is.  *)
(* Not so where the post names one of another forum, whose name the text   *)
(* of the edit lacks; where text has come to stand behind a reference or   *)
(* ">>" because a number of no secret was left out between them; and where *)
(* a secret holds a tag without its end, which counted for the tags around *)
(* it when the post was written and does not any more.                     *)
(***************************************************************************)
KeepsUnchanged ==
  ( /\ phase = "posted" /\ Len(SecretsOf(post)) <= Len(SecretTags)
    /\ \A p \in Replies(post) : p[1] = "here"
    /\ ~Glued(post)
    /\ \A i \in DOMAIN SecretsOf(post) : PlainTokens(SecretsOf(post)[i].parts) \cap TagTokens = {} )
  => Joined(Finalized(EditText(post), "sender", SecretsOf(post))) = Joined(post)

(***************************************************************************)
(* Nothing that was written is left out of the post but numbers of no      *)
(* secret, and dots behind a reference, which are read as part of it and   *)
(* then dropped.                                                           *)
(***************************************************************************)
Count(s, S) == Len(SelectSeq(s, LAMBDA t : t \in S))

NothingLost == phase = "posted" /\ refs = <<>> =>
  /\ \A t \in ToSet(text) \ (RefTokens \cup ToSet(SecretTags)) :
       Count(AllTokens(post), {t}) = Count(text, {t})
  /\ Count(AllTokens(post), {"."}) < Count(text, {"."}) => Replies(Parse(text)) # {}

(***************************************************************************)
(* Tags that are written inside each other become parts inside each other, *)
(* and none of them is shown as text; except where a tag with an address   *)
(* or a secret holds another of its kind, since it ends at the first end.  *)
(***************************************************************************)
RECURSIVE Nests(_, _)
Nests(s, open) ==
  IF s = <<>> THEN open = <<>>
  ELSE LET t == Head(s) IN
       IF t \in Kinds
       THEN (t \in {"[url]", "[secret]"} => t \notin ToSet(open)) /\ Nests(Tail(s), Append(open, t))
       ELSE IF t \in TagTokens
       THEN open # <<>> /\ Close[Last(open)] = t /\ Nests(Tail(s), Front(open))
       ELSE Nests(Tail(s), open)

NestedIsParsed == phase = "posted" /\ refs = <<>> /\ Nests(text, <<>>) =>
  PlainTokens(post) \cap TagTokens = {}

(***************************************************************************)
(* Whoever is replied to in a post opens its secrets; except where the     *)
(* page of the writer did not have the post replied to, where only a       *)
(* secret shows the reply, where a secret is older than the reply, and     *)
(* where an edit signed for a role made it: readers take it for locked     *)
(* with the sender's key, and nobody, author included, can open it         *)
(* (modActions.ts:114, secret.ts:73).                                      *)
(***************************************************************************)
RepliedToOpens == phase = "posted" =>
  \A i \in DOMAIN SecretsOf(post) : LET secret == SecretsOf(post)[i] IN
    secret \notin ToSet(refs) /\ secret.by = "sender" =>
      \A p \in Replies(post) \cap page : Opens(p, secret)

MarkupSafety == KeepsUnchanged /\ NothingLost /\ NestedIsParsed /\ RepliedToOpens
=============================================================================
