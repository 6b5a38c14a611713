--------------------------- MODULE BoardSettings ---------------------------
(***************************************************************************)
(* The settings of a board as the browser changes them: the dialog of      *)
(* BoardSettingsModal.tsx, and the menu of a thread, which pins it         *)
(* (entityActions.tsx, toggleThreadPin).                                   *)
(*                                                                         *)
(* Lists go to the contract as a whole: what is sent replaces what is      *)
(* there.  The dialog takes its values from the page when it opens and     *)
(* does not follow it; it belongs to no page, and stays when another board *)
(* is shown behind it, but what it saves goes to the board that is shown.  *)
(* The menu works out the new list from the page's copy of the board, and  *)
(* the page of a thread has none.  Of the deeds of a user one is under way *)
(* at a time; what is asked for meanwhile is dropped without a word.       *)
(***************************************************************************)
EXTENDS Naturals, Sequences, FiniteSets, SequencesExt, FiniteSetsExt

CONSTANTS
  Boards, Threads, Images,
  MaxPins,   \* bound: length of a list
  MaxSteps   \* bound: steps of the user and of other moderators

BoardSettingsAssumption ==
  /\ IsFiniteSet(Boards) /\ IsFiniteSet(Threads) /\ IsFiniteSet(Images)
  /\ MaxPins \in Nat /\ MaxSteps \in Nat

VARIABLES
  chain,    \* the settings of each board
  page,     \* the board shown, whether by one of its threads, and its settings as known
  form,     \* the dialog
  uploads,  \* the images that are being uploaded for it, how many times each
  busy,     \* a deed is under way
  sent,     \* it
  left      \* what is left of the bound

vars == <<chain, page, form, uploads, busy, sent, left>>

Settings == [pinned : BoundedSeq(Threads, MaxPins), reactions : BoundedSeq(Images, MaxPins),
             ignore : BOOLEAN]

NoUploads == [i \in Images |-> 0]

Closed == [open |-> FALSE]

Nothing == [field |-> "none"]

\* A step of somebody: there are only so many.
Started == left > 0 /\ left' = left - 1

-----------------------------------------------------------------------------
\* createEffect: the values of the page when the dialog opens.  What others have
\* changed since, what was taken out and what was put in twice is remembered for
\* the properties.
Filled ==
  [open |-> TRUE, on |-> page.board, pinned |-> page.copy.pinned,
   reactions |-> page.copy.reactions, ignore |-> page.copy.ignore,
   shown |-> page.copy, taken |-> {}, twice |-> {}, missed |-> FALSE,
   stale |-> page.copy.ignore # chain[page.board].ignore \/ sent.field = "ignore"]

OpenSettings ==
  /\ Started
  /\ ~form.open /\ page.kind = "board"
  /\ form' = Filled
  /\ UNCHANGED <<chain, page, uploads, busy, sent>>

Close ==
  /\ form.open
  /\ form' = Closed /\ uploads' = NoUploads
  /\ UNCHANGED <<chain, page, busy, sent, left>>

AddPinMutant(t) == [form EXCEPT !.pinned = <<t>>]

AddPin(t) ==
  IF Contains(form.pinned, t) THEN form
  ELSE [form EXCEPT !.pinned = Append(@, t), !.taken = @ \ {t}]

RemovePin(i) ==
  [form EXCEPT !.pinned = RemoveAt(@, i), !.taken = @ \cup {form.pinned[i]}]

RemoveReaction(i) ==
  [form EXCEPT !.reactions = RemoveAt(@, i), !.taken = @ \cup {form.reactions[i]}]

\* The lists can be touched while nothing is under way; only a pin can be added then too, by
\* the key that ends a line.
EditLists ==
  /\ Started
  /\ form.open
  /\ \/ \E t \in Threads : Len(form.pinned) < MaxPins /\ form' = AddPin(t)
     \/ ~busy /\ \E i \in DOMAIN form.pinned : form' = RemovePin(i)
     \/ ~busy /\ \E i \in DOMAIN form.reactions : form' = RemoveReaction(i)
  /\ UNCHANGED <<chain, page, uploads, busy, sent>>

\* An image that is already in the list is not taken again.
ListedImage(i) == Contains(form.reactions, i)

\* onReactionFile: the image is looked for, uploaded, and then appended.
ChooseFile(i) ==
  /\ Started
  /\ form.open /\ ~busy
  /\ ~ListedImage(i) /\ uploads[i] < 2
  /\ uploads' = [uploads EXCEPT ![i] = @ + 1]
  /\ form' = [form EXCEPT !.twice = IF uploads[i] > 0 THEN @ \cup {i} ELSE @]
  /\ UNCHANGED <<chain, page, busy, sent>>

UploadEnds(i) ==
  /\ uploads[i] > 0
  /\ uploads' = [uploads EXCEPT ![i] = @ - 1]
  /\ \/ form' = form
     \/ Len(form.reactions) < MaxPins /\ form' = [form EXCEPT !.reactions = Append(@, i), !.taken = @ \ {i}]
  /\ UNCHANGED <<chain, page, busy, sent, left>>

\* pasteReactions: those of another board, the ones the list lacks.
Pasted(images) ==
  LET new == images \ ToSet(form.reactions)
  IN  [form EXCEPT !.reactions = @ \o SetToSeq(new), !.taken = @ \ new,
                   !.twice = @ \cup {i \in new : uploads[i] > 0}]

PasteReactions ==
  /\ Started
  /\ form.open /\ ~busy
  /\ \E images \in SUBSET Images :
       /\ Len(Pasted(images).reactions) <= MaxPins
       /\ form' = Pasted(images)
  /\ UNCHANGED <<chain, page, uploads, busy, sent>>

-----------------------------------------------------------------------------
\* modActions: what is sent goes to the board that the store holds.
Run(field, value, was, taken) ==
  /\ busy' = TRUE
  /\ sent' = [field |-> field, value |-> value, board |-> page.board, was |-> was, taken |-> taken]

\* Save of a list: an empty one is not saved.
Save(field) ==
  /\ Started
  /\ form.open /\ ~busy /\ form[field] # <<>>
  /\ Run(field, form[field], [on |-> form.on, list |-> form.shown[field]], form.taken)
  /\ UNCHANGED <<chain, page, form, uploads>>

SendIgnoreMutant(value) ==
  IF busy THEN UNCHANGED <<busy, sent>>
  ELSE Run("ignore", ~value, [on |-> form.on, list |-> <<>>], {})

SendIgnore(value) ==
  IF busy THEN UNCHANGED <<busy, sent>>
  ELSE Run("ignore", value, [on |-> form.on, list |-> <<>>], {})

\* The box is ticked at once, and sends what it shows, unless something is under way.
Tick ==
  /\ Started
  /\ form.open
  /\ form' = [form EXCEPT !.ignore = ~@, !.missed = busy \/ form.on # page.board]
  /\ SendIgnore(~form.ignore)
  /\ UNCHANGED <<chain, page, uploads>>

\* store.pinnedUids
PinnedUids == IF page.kind = "board" THEN page.copy.pinned ELSE <<>>

Toggled(t) ==
  IF Contains(PinnedUids, t) THEN SelectSeq(PinnedUids, LAMBDA u : u # t)
  ELSE Append(PinnedUids, t)

toggleThreadPin(t) ==
  /\ Started
  /\ ~busy /\ Len(Toggled(t)) <= MaxPins
  /\ Run("pinned", Toggled(t),
         [on |-> IF page.kind = "board" THEN page.board ELSE "unknown", list |-> page.copy.pinned], {t})
  /\ UNCHANGED <<chain, page, form, uploads>>

\* The contract: reactions without duplicates, pins as they come.
Accepted(s) == s.field = "reactions" => IsInjective(s.value)

Land ==
  /\ busy /\ Accepted(sent)
  /\ chain' = [chain EXCEPT ![sent.board][sent.field] = sent.value]
  /\ busy' = FALSE /\ sent' = Nothing
  /\ UNCHANGED <<page, form, uploads, left>>

Fail ==
  /\ busy
  /\ form' = IF form.open /\ sent.field = "ignore" THEN [form EXCEPT !.missed = TRUE] ELSE form
  /\ busy' = FALSE /\ sent' = Nothing
  /\ UNCHANGED <<chain, page, uploads, left>>

-----------------------------------------------------------------------------
Init ==
  /\ \E pins \in {<<>>} \cup {<<t>> : t \in Threads} :
       chain = [b \in Boards |-> [pinned |-> pins, reactions |-> <<>>, ignore |-> FALSE]]
  /\ \E b \in Boards, kind \in {"board", "thread"} :
       page = [board |-> b, kind |-> kind, copy |-> chain[b]]
  /\ form = Closed /\ uploads = NoUploads
  /\ busy = FALSE /\ sent = Nothing
  /\ left = MaxSteps

Others(b) ==
  \/ \E t \in Threads :
       chain' = [chain EXCEPT ![b].pinned = IF Contains(@, t) THEN SelectSeq(@, LAMBDA u : u # t)
                                            ELSE Append(@, t)]
  \/ chain' = [chain EXCEPT ![b].ignore = ~@]

Elsewhere ==
  /\ Started
  /\ \E b \in Boards :
       /\ Others(b) /\ Len(chain'[b].pinned) <= MaxPins
       /\ form' = IF form.open /\ form.on = b /\ chain'[b].ignore # chain[b].ignore
                  THEN [form EXCEPT !.stale = TRUE] ELSE form
  /\ UNCHANGED <<page, uploads, busy, sent>>

Deliver ==
  /\ page.copy # chain[page.board]
  /\ page' = [page EXCEPT !.copy = chain[page.board]]
  /\ UNCHANGED <<chain, form, uploads, busy, sent, left>>

\* Another page, by the menus or, with the dialog open, by the browser's buttons.
Load ==
  /\ Started
  /\ \E b \in Boards, kind \in {"board", "thread"} :
       page' = [board |-> b, kind |-> kind, copy |-> chain[b]]
  /\ UNCHANGED <<chain, form, uploads, busy, sent>>

Next ==
  \/ OpenSettings \/ Close \/ EditLists \/ PasteReactions \/ Tick
  \/ \E i \in Images : ChooseFile(i) \/ UploadEnds(i)
  \/ \E field \in {"pinned", "reactions"} : Save(field)
  \/ \E t \in Threads : toggleThreadPin(t)
  \/ Land \/ Fail \/ Elsewhere \/ Deliver \/ Load

Spec == Init /\ [][Next]_vars

-----------------------------------------------------------------------------
\* Well-typed states.
TypeOK ==
  /\ chain \in [Boards -> Settings] /\ page.copy \in Settings
  /\ form.open => form.shown \in Settings /\ form.pinned \in Seq(Threads)
  /\ uploads \in [Images -> 0 .. 2] /\ left \in 0 .. MaxSteps
  /\ busy <=> sent # Nothing

\* A list of the dialog can be saved: it names nothing twice, which the contract
\* refuses for reactions (board_apply.move:200).  The same image may still come
\* twice when it is chosen or pasted while its upload runs, since it is looked for
\* before and appended after (BoardSettingsModal.tsx:92-95).
ListsAccepted ==
  form.open =>
    /\ IsInjective(form.pinned) \/ ~IsInjective(form.shown.pinned)
    /\ IsInjective(SelectSeq(form.reactions, LAMBDA i : i \notin form.twice))

\* The box of the dialog says what the board has, once nothing is under way, if
\* the page behind it is still the board's: unless somebody else changed it since,
\* or the tick was not sent or failed, which the box does not take back
\* (BoardSettingsModal.tsx:183-186).
BoxTellsTruth ==
  form.open /\ ~busy =>
    \/ form.ignore = chain[form.on].ignore
    \/ form.stale \/ form.missed \/ form.on # page.board

\* What is saved takes out of the board's list only what the user took out, or
\* what came in unseen.  Not so when the dialog was left open while another board
\* was shown (modals.tsx:124), nor for a pin from the page of a thread: it takes
\* all other pins away (store.ts:270, entityActions.tsx:90).
TakesOnlyTaken ==
  \A field \in {"pinned", "reactions"} :
    busy /\ ~busy' /\ sent.field = field /\ sent.was.on = sent.board =>
      LET gone(b) == ToSet(chain[b][field]) \ ToSet(chain'[b][field])
      IN  \A b \in Boards : gone(b) \subseteq
            sent.taken \cup (ToSet(chain[b][field]) \ ToSet(sent.was.list))

OnlyTakenVanish == [][TakesOnlyTaken]_vars

\* The dialog shows and saves lists and ticks that are the board's.
BoardSettingsSafety == TypeOK /\ ListsAccepted /\ BoxTellsTruth
=============================================================================
