--------------------------- MODULE ContentAutosave ---------------------------
(***************************************************************************)
(* One Page draft in one editor: the debounced autosave writer of the      *)
(* React client, the autosave row it writes, the promotion that turns a    *)
(* stored draft into a Page, and the Save button, which pauses the writer, *)
(* writes the Page and lets the writer resume.  Requests meet a second tab *)
(* that promotes the same draft, another administrator who changes the     *)
(* Page, an expired session, and replies that are lost.  The user can      *)
(* close the editor at any time and open the draft's address again, while  *)
(* requests of the closed editor are still on their way.                   *)
(***************************************************************************)
EXTENDS Integers, FiniteSets

CONSTANTS
  Calls,        \* persistLatest activations that can be pending together
  OtherTab,     \* a second tab on the same draft that promotes it
  Promotable,   \* the texts that are complete enough for a Draft Page
  MaxTexts,     \* bound: edits, each of which makes a new text
  MaxPages,     \* bound: Pages made from the draft
  MaxSaves,     \* bound: times the user presses Save
  MaxDisturbances  \* bound: failed requests, expired sessions, closed
                   \* editors, foreign changes, promotions by the other tab

NoCall == "none"

ASSUME ConstantAssumption ==
  /\ NoCall \notin Calls
  /\ OtherTab \notin Calls
  /\ Promotable \subseteq 1..MaxTexts
  /\ MaxTexts \in Nat /\ MaxPages \in Nat \ {0} /\ MaxSaves \in Nat
  /\ MaxDisturbances \in Nat

VARIABLES
  pages,      \* the Pages made from this draft
  row,        \* the draft's row of page_autosaves
  editor,     \* what the editor and its autosave hook hold
  inFlight,   \* the hook's inFlightRef
  call,       \* persistLatest activations
  promotion,  \* promotion requests of the calls and of the other tab
  save,       \* the Save button's request
  discard,    \* the request that discards the stored autosave
  signedIn,   \* the server still accepts the editor's session
  late,       \* requests of closed editors that the server has yet to see
  saved,      \* history: the newest text a Save stored, and in which Page
  crowded,    \* history: two writes of this editor, or a write and a Save,
              \* have been on their way together since it last had none
  stray,      \* history: since the last write that was on its way alone was
              \* stored, something the editor does not wait for, or does not
              \* hear of, may have changed the row
  counts      \* how often the bounded things happened

stored == <<pages, row, saved, late, stray>>
writer == <<inFlight, call, crowded>>
vars == <<stored, editor, writer, promotion, save, discard, signedIn, counts>>

\* Texts are numbered in the order they are typed.
Nothing == -2
Foreign == -1
Original == 0
Texts == 1..MaxTexts

PageIds == 1..MaxPages
NoTarget == 0
NoPage == [revision |-> 0, text |-> Original, origin |-> "none"]
NoRow == [target |-> NoTarget, base |-> 0, text |-> Nothing]
HasRow == row # NoRow
Exists(p) == pages[p] # NoPage
\* A new Page takes the next number.
NewPage(p) == ~Exists(p) /\ \A other \in PageIds : other < p => Exists(other)

IdleCall == [stage |-> "idle", on |-> NoCall, target |-> NoTarget, revision |-> 0,
             text |-> Nothing, session |-> 0, result |-> "none"]
NoPromotion == [stage |-> "none", text |-> Nothing, target |-> NoTarget, revision |-> 0]
NoSave == IdleCall
NoDiscard == IdleCall

Promoters == Calls \cup {OtherTab}
Count(k) == counts' = [counts EXCEPT ![k] = @ + 1]
Disturbed == counts.disturbances < MaxDisturbances /\ Count("disturbances")

\* The editor of a draft, opened on Page p (on a new Page for NoTarget).
Opened(p, session) ==
  LET base == IF p = NoTarget THEN Original ELSE pages[p].text
      found == HasRow /\ row.target = p
  IN [target |-> p,
      revision |-> IF p = NoTarget THEN 0 ELSE pages[p].revision,
      onPage |-> p # NoTarget,
      text |-> base,
      original |-> base,
      persisted |-> IF found THEN row.text ELSE Nothing,
      candidate |-> IF found /\ row.text # base THEN row.text ELSE Nothing,
      discardDue |-> found /\ row.text = base,
      paused |-> FALSE,
      conflict |-> FALSE,
      session |-> session]

\* A new Page, or one that was loaded, with no autosave stored.
Init ==
  /\ pages \in {[p \in PageIds |-> NoPage],
                [[p \in PageIds |-> NoPage] EXCEPT ![1] =
                   [revision |-> 1, text |-> Original, origin |-> "loaded"]]}
  /\ row = NoRow
  /\ editor = Opened(IF Exists(1) THEN 1 ELSE NoTarget, 0)
  /\ inFlight = NoCall
  /\ call = [c \in Calls |-> IdleCall]
  /\ promotion = [p \in Promoters |-> NoPromotion]
  /\ save = NoSave
  /\ discard = NoDiscard
  /\ signedIn = TRUE
  /\ late = {}
  /\ saved = [target |-> NoTarget, text |-> Original]
  /\ crowded = FALSE
  /\ stray = FALSE
  /\ counts = [k \in {"texts", "saves", "disturbances"} |-> 0]

HasChanges == editor.text # editor.original
\* The dialog that offers the stored autosave is open.
Recovering == editor.candidate # Nothing
Active == HasChanges /\ save = NoSave /\ ~Recovering
\* The editor's durability "recoverable".
Recoverable == Active /\ editor.text = editor.persisted

Working(k) == k.stage \in {"put", "promote", "answered"}
\* Nothing is stored, and no answer that says otherwise is on its way.
AllGone == ~HasRow /\ \A c \in Calls : ~Working(call[c])

\* putAutosave stores nothing for this target and revision.
PutRefused(target, revision) ==
  IF target = NoTarget
  THEN HasRow /\ row.target # NoTarget
  ELSE pages[target].revision # revision \/ (HasRow /\ row.target \notin {NoTarget, target})

Accepted(session) == signedIn /\ session = editor.session

-----------------------------------------------------------------------------
(* The user, the session and other users.                                  *)

\* Title, slug and excerpt can be edited at any time, even during a Save.
Type ==
  /\ counts.texts < MaxTexts
  /\ ~Recovering
  /\ editor' = [editor EXCEPT !.text = counts.texts + 1]
  /\ Count("texts")
  /\ UNCHANGED <<stored, writer, promotion, save, discard, signedIn>>

\* restoreAutosave: the stored text becomes the draft again.
Restore ==
  /\ Recovering
  /\ discard = NoDiscard
  /\ editor' = [editor EXCEPT !.text = editor.candidate, !.candidate = Nothing]
  /\ UNCHANGED <<stored, writer, promotion, save, discard, signedIn, counts>>

EndSession ==
  /\ signedIn
  /\ Disturbed
  /\ signedIn' = FALSE
  /\ UNCHANGED <<stored, editor, writer, promotion, save, discard>>

\* The editor stays mounted; new credentials lift the pause of the old ones.
Reauthenticate ==
  /\ ~signedIn
  /\ signedIn' = TRUE
  /\ editor' = [editor EXCEPT !.session = @ + 1, !.paused = FALSE]
  /\ UNCHANGED <<stored, writer, promotion, save, discard, counts>>

\* Another administrator updates the Page; only that user's autosaves go.
ChangePage(p) ==
  /\ Exists(p)
  /\ Disturbed
  /\ pages' = [pages EXCEPT ![p].revision = @ + 1, ![p].text = Foreign]
  /\ UNCHANGED <<row, saved, late, stray, editor, writer, promotion, save, discard, signedIn>>

\* The requests of this editor that the server has yet to see.
OnTheirWay ==
  {[kind |-> "put", by |-> c, request |-> call[c]] : c \in {d \in Calls : call[d].stage = "put"}}
    \cup {l \in {[kind |-> "save", by |-> NoCall, request |-> save],
                 [kind |-> "discard", by |-> NoCall, request |-> discard]} : l.request.stage = "sent"}

\* The tab is closed, or crashes, and the draft's address is opened again:
\* the requests that were sent may still arrive, and nobody gets the answers.
Reopen ==
  /\ signedIn
  /\ Disturbed
  /\ editor' = Opened(IF HasRow THEN row.target
                      ELSE IF editor.onPage THEN editor.target ELSE NoTarget, editor.session)
  /\ late' = late \cup OnTheirWay
  /\ inFlight' = NoCall
  /\ call' = [c \in Calls |-> IdleCall]
  /\ save' = NoSave
  /\ discard' = NoDiscard
  /\ crowded' = FALSE
  /\ UNCHANGED <<pages, row, saved, stray, promotion, signedIn>>

\* The new Page's editor navigates to the promoted Page once the draft is
\* stored, and loads it with its autosave.
OpenPromoted ==
  /\ ~editor.onPage
  /\ editor.target # NoTarget
  /\ Recoverable
  /\ signedIn
  /\ editor' = Opened(editor.target, editor.session)
  /\ UNCHANGED <<stored, writer, promotion, save, discard, signedIn, counts>>

-----------------------------------------------------------------------------
(* persistLatest and its requests.                                         *)

Put(e) == [IdleCall EXCEPT !.stage = "put", !.target = e.target, !.revision = e.revision,
                           !.text = e.text, !.session = e.session]

\* The timer fires, or flushNow asks; behind a write in flight the call waits.
\* Activations have no identity: the first free one is taken.
Free(c) == call[c] = IdleCall /\ promotion[c] = NoPromotion

StartCall(c) ==
  /\ Free(c)
  /\ c = CHOOSE d \in Calls : Free(d)
  /\ Active
  /\ ~editor.paused /\ ~editor.conflict
  /\ editor.text # editor.persisted
  /\ \/ /\ inFlight = NoCall
        /\ call' = [call EXCEPT ![c] = Put(editor)]
        /\ inFlight' = c
     \/ /\ inFlight # NoCall
        /\ call' = [call EXCEPT ![c] = [IdleCall EXCEPT !.stage = "waiting", !.on = inFlight]]
        /\ UNCHANGED inFlight
  /\ UNCHANGED <<stored, editor, crowded, promotion, save, discard, signedIn, counts>>

Answer(c, result) == call' = [call EXCEPT ![c].stage = "answered", ![c].result = result]

\* A new Page's stored draft is promoted at once when it is complete.
Promotes(k) == k.target = NoTarget /\ k.text \in Promotable

StoreRow(k) == row' = [target |-> k.target, base |-> k.revision, text |-> k.text]

\* A stored write that was on its way alone is the row the editor knows of,
\* unless it is older than a Page that a request astray has saved.
StrayAfter(k) == crowded \/ (stray /\ k.text < saved.text)

\* PUT /autosave: refused for the session or the revision, or stored.
ServePut(c) ==
  LET k == call[c] IN
  /\ k.stage = "put"
  /\ \/ /\ ~Accepted(k.session)
        /\ Answer(c, "session_ended")
        /\ UNCHANGED <<row, stray, promotion>>
     \/ /\ Accepted(k.session)
        /\ PutRefused(k.target, k.revision)
        /\ Answer(c, "conflict")
        /\ UNCHANGED <<row, stray, promotion>>
     \/ /\ Accepted(k.session)
        /\ ~PutRefused(k.target, k.revision)
        /\ StoreRow(k)
        /\ stray' = StrayAfter(k)
        /\ IF Promotes(k)
           THEN /\ call' = [call EXCEPT ![c].stage = "promote"]
                /\ promotion' = [promotion EXCEPT ![c].stage = "sent"]
           ELSE Answer(c, "saved") /\ UNCHANGED promotion
  /\ UNCHANGED <<pages, saved, late, editor, inFlight, crowded, save, discard, signedIn, counts>>

\* The request fails, or it is stored and the reply is lost.
LosePut(c) ==
  LET k == call[c] IN
  /\ k.stage = "put"
  /\ Answer(c, "failed")
  /\ Disturbed
  /\ \/ UNCHANGED <<row, stray>>
     \/ /\ Accepted(k.session) /\ ~PutRefused(k.target, k.revision)
        /\ StoreRow(k)
        /\ stray' = StrayAfter(k)
  /\ UNCHANGED <<pages, saved, late, editor, inFlight, crowded, promotion, save, discard, signedIn>>

-----------------------------------------------------------------------------
(* promotePageAutosave: read the row, create the Page, read again.         *)

OtherTabPromotes ==
  /\ promotion[OtherTab] = NoPromotion
  /\ Disturbed
  /\ promotion' = [promotion EXCEPT ![OtherTab].stage = "sent"]
  /\ UNCHANGED <<stored, editor, writer, save, discard, signedIn>>

\* The answer: Page p, or not ready.
PromotionAnswer(q, p, revision) ==
  promotion' = [promotion EXCEPT
    ![q] = [NoPromotion EXCEPT !.stage = "done", !.target = p, !.revision = revision]]

\* The Page the row is bound to, as it is now.
AnswerBound(q) ==
  PromotionAnswer(q, row.target, IF row.target = NoTarget THEN 0 ELSE pages[row.target].revision)

ReadPromotion(q) ==
  /\ promotion[q].stage = "sent"
  /\ IF HasRow /\ row.target = NoTarget /\ row.text \in Promotable
     THEN promotion' = [promotion EXCEPT ![q] = [@ EXCEPT !.stage = "read", !.text = row.text]]
     ELSE AnswerBound(q)
  /\ UNCHANGED <<stored, editor, writer, save, discard, signedIn, counts>>

\* Faulty variant: any unbound row of the draft is enough.
StillUnboundAny(text) == HasRow /\ row.target = NoTarget

\* The guard of the insert and of the binding: the digest that was read.
StillUnbound(text) == HasRow /\ row.target = NoTarget /\ row.text = text

\* One batch: the Page is inserted and the row bound to it.  Another Page may
\* own the slug, or the parent is in the trash; then nothing is stored.
CreatePromoted(q) ==
  /\ promotion[q].stage = "read"
  /\ \/ /\ StillUnbound(promotion[q].text)
        /\ \E p \in PageIds :
             /\ NewPage(p)
             /\ pages' = [pages EXCEPT ![p] =
                  [revision |-> 1, text |-> promotion[q].text, origin |-> "promotion"]]
             /\ row' = IF row.text = promotion[q].text
                       THEN [row EXCEPT !.target = p, !.base = 1] ELSE row
             /\ PromotionAnswer(q, p, 1)
     \/ /\ PromotionAnswer(q, NoTarget, 0)
        /\ UNCHANGED <<pages, row>>
     \/ /\ ~StillUnbound(promotion[q].text)
        /\ promotion' = [promotion EXCEPT ![q].stage = "reread"]
        /\ UNCHANGED <<pages, row>>
  /\ UNCHANGED <<saved, late, stray, editor, writer, save, discard, signedIn, counts>>

\* Lost the race: the winner's Page, if the row is bound to one.
RereadPromotion(q) ==
  /\ promotion[q].stage = "reread"
  /\ AnswerBound(q)
  /\ UNCHANGED <<stored, editor, writer, save, discard, signedIn, counts>>

\* The other tab keeps its answer to itself; a closed editor's has no reader.
ForgetPromotion(q) ==
  /\ promotion[q].stage = "done"
  /\ q \in Calls => call[q].stage # "promote"
  /\ promotion' = [promotion EXCEPT ![q] = NoPromotion]
  /\ UNCHANGED <<stored, editor, writer, save, discard, signedIn, counts>>

\* A promotion that fails leaves the autosave stored.
LosePromotion(c) ==
  /\ call[c].stage = "promote"
  /\ promotion[c].stage \in {"sent", "done"}
  /\ Disturbed
  /\ Answer(c, "saved")
  /\ promotion' = [promotion EXCEPT ![c] = NoPromotion]
  /\ UNCHANGED <<stored, editor, inFlight, crowded, save, discard, signedIn>>

-----------------------------------------------------------------------------
(* The end of a call, and everything that waited for it.                   *)

\* Faulty variant: whatever the draft is now counts as stored.
PersistedNow(k) == editor.text

\* The text that was sent is the one that counts as stored.
Persisted(k) == k.text

\* The stored autosave counts as saved whatever the promotion answered; the
\* hook remembers the Page.
Ended(k) == [k EXCEPT !.result = IF k.stage = "promote" THEN "saved" ELSE @]
Remembered(a) ==
  IF a.target # NoTarget /\ ~editor.onPage
  THEN [editor EXCEPT !.target = a.target, !.revision = a.revision] ELSE editor

\* The hook after the answer of a call.  A conflict is kept only while the
\* writer is active; an expired session pauses it unless it was renewed.  A
\* stored text is to be discarded should the draft equal its Page.
AfterCall(k, a) ==
  [Remembered(a) EXCEPT
    !.persisted = IF k.result = "saved" THEN Persisted(k) ELSE @,
    !.discardDue = @ \/ k.result = "saved",
    !.conflict = @ \/ (k.result = "conflict" /\ Active),
    !.paused = @ \/ (k.result = "session_ended" /\ k.session = editor.session)]

\* Waiting calls look at the hook again, then write the newest text; nothing
\* makes them look at inFlightRef again: the last of them is the one that is
\* waited for, and the first to end, of whatever calls write, clears it.
FinishCall(c) ==
  LET k == Ended(call[c])
      after == AfterCall(k, promotion[c])
      waiting == {w \in Calls : call[w].stage = "waiting" /\ call[w].on = c}
      writing == IF after.paused \/ after.conflict \/ k.result = "conflict" \/ after.text = after.persisted
                 THEN {} ELSE waiting
      Resumed(r) == IF r.stage = "waiting" /\ r.on = c
                    THEN [r EXCEPT !.stage = "sent", !.on = NoCall,
                                   !.target = after.target, !.revision = after.revision]
                    ELSE r
  IN /\ k.stage = "answered" \/ (k.stage = "promote" /\ promotion[c].stage = "done")
     /\ editor' = after
     /\ promotion' = [promotion EXCEPT ![c] = NoPromotion]
     /\ call' = [w \in Calls |-> IF w \in writing THEN Put(after)
                                 ELSE IF w = c \/ w \in waiting THEN IdleCall ELSE call[w]]
     /\ inFlight' = IF writing = {} THEN NoCall ELSE CHOOSE w \in writing : TRUE
     /\ crowded' = \E w \in Calls :
          /\ Working(call'[w])
          /\ crowded \/ save # NoSave \/ \E v \in Calls \ {w} : Working(call'[v])
     /\ stray' = (stray \/ crowded')
     /\ save' = Resumed(save)
     /\ discard' = Resumed(discard)
     /\ UNCHANGED <<pages, row, saved, late, signedIn, counts>>

-----------------------------------------------------------------------------
(* Save: pause the writer, wait for the write in flight, write the Page.   *)

\* Faulty variant: the write in flight is not waited for.
SentAtOnce(text) ==
  [IdleCall EXCEPT !.stage = "sent", !.target = editor.target, !.revision = editor.revision,
                   !.text = text, !.session = editor.session]

\* prepareForCanonicalSave, and the request once nothing is in flight.
Prepared(text) ==
  [IdleCall EXCEPT !.stage = IF inFlight = NoCall THEN "sent" ELSE "waiting", !.on = inFlight,
                   !.target = editor.target, !.revision = editor.revision,
                   !.text = text, !.session = editor.session]

BeginSave ==
  /\ save = NoSave
  /\ counts.saves < MaxSaves
  /\ HasChanges /\ ~Recovering
  /\ Count("saves")
  /\ save' = Prepared(editor.text)
  /\ editor' = [editor EXCEPT !.paused = TRUE, !.conflict = FALSE]
  /\ UNCHANGED <<stored, writer, promotion, discard, signedIn>>

SaveAnswer(result, target, revision) ==
  save' = [save EXCEPT !.stage = "answered", !.result = result,
                       !.target = target, !.revision = revision]

\* createPage deletes the draft's row unless it is bound to a Page.
WithoutDraft == IF row.target = NoTarget THEN NoRow ELSE row

CreateSaved(k, p) ==
  /\ k.target = NoTarget
  /\ NewPage(p)
  /\ pages' = [pages EXCEPT ![p] = [revision |-> 1, text |-> k.text, origin |-> "save"]]
  /\ row' = WithoutDraft
  /\ saved' = [target |-> p, text |-> k.text]

\* Refused for its slug or its parent, nothing happens; but where the parent
\* goes to the trash after it was checked, the insert adds no Page and the
\* rest of its batch deletes the draft's row.
CreateRefused(k) ==
  /\ k.target = NoTarget
  /\ row' \in {row, WithoutDraft}
  /\ UNCHANGED <<pages, saved>>

\* A Save of Page p takes the user's autosave of the Page with it.
WithoutRow(p) == IF row.target = p THEN NoRow ELSE row

\* updatePage: refused for the revision; the same text again only deletes the
\* autosave; a new text gets a new revision in the same batch.
UpdateSaved(k, p) ==
  /\ k.target = p /\ p # NoTarget
  /\ pages[p].revision = k.revision
  /\ pages' = [pages EXCEPT ![p].text = k.text,
                            ![p].revision = IF pages[p].text = k.text THEN @ ELSE @ + 1]
  /\ row' = WithoutRow(p)
  /\ saved' = [target |-> p, text |-> k.text]

\* A Save with the Page's revision is refused where its slug is taken or its
\* parent is not live; one with another revision always is.
UpdateRefused(k) == k.target # NoTarget

ServeSave ==
  /\ save.stage = "sent"
  /\ \/ /\ ~Accepted(save.session)
        /\ SaveAnswer("session_ended", save.target, save.revision)
        /\ UNCHANGED <<pages, row, saved, stray>>
     \/ /\ Accepted(save.session)
        /\ \E p \in PageIds :
             /\ CreateSaved(save, p) \/ UpdateSaved(save, p)
             /\ SaveAnswer("saved", p, pages'[p].revision)
        /\ UNCHANGED stray
     \/ /\ Accepted(save.session)
        /\ CreateRefused(save)
        /\ SaveAnswer("refused", NoTarget, 0)
        /\ stray' = (stray \/ row' # row)
     \/ /\ Accepted(save.session)
        /\ UpdateRefused(save)
        /\ SaveAnswer("refused", save.target, save.revision)
        /\ UNCHANGED <<pages, row, saved, stray>>
  /\ UNCHANGED <<late, editor, writer, promotion, discard, signedIn, counts>>

LoseSave ==
  /\ save.stage = "sent" \/ (save.stage = "answered" /\ save.result = "saved")
  /\ Disturbed
  /\ SaveAnswer("failed", save.target, save.revision)
  /\ UNCHANGED <<stored, editor, writer, promotion, discard, signedIn>>

\* Faulty variant: a failed Save leaves the writer paused.
StillPaused(result) == result # "saved" /\ editor.paused

\* resumeAfterCanonicalFailure and markCanonicalSaveCompleted lift the pause;
\* only the end of the session leaves it as it is.
PausedAfter(result) == result = "session_ended" /\ editor.paused

\* The saved Page replaces the draft, whatever was typed since.
AnswerSave ==
  /\ save.stage = "answered"
  /\ editor' =
       IF save.result = "saved"
       THEN [editor EXCEPT !.target = save.target, !.revision = save.revision, !.onPage = TRUE,
               !.text = save.text, !.original = save.text, !.persisted = Nothing,
               !.discardDue = FALSE, !.paused = PausedAfter(save.result), !.conflict = FALSE]
       ELSE [editor EXCEPT !.paused = PausedAfter(save.result), !.conflict = FALSE]
  /\ save' = NoSave
  /\ stray' = (stray /\ ~(save.result = "saved" /\ AllGone))
  /\ UNCHANGED <<pages, row, saved, late, writer, promotion, discard, signedIn, counts>>

-----------------------------------------------------------------------------
(* Discarding the stored autosave: from the recovery dialog, or when the   *)
(* draft is opened and equals the Page.                                    *)

BeginDiscard ==
  /\ discard = NoDiscard
  /\ Recovering \/ (editor.discardDue /\ ~HasChanges)
  /\ discard' = Prepared(Nothing)
  /\ editor' = [editor EXCEPT !.paused = TRUE, !.discardDue = FALSE]
  /\ UNCHANGED <<stored, writer, promotion, save, signedIn, counts>>

DiscardAnswer(result) == discard' = [discard EXCEPT !.stage = "answered", !.result = result]

ServeDiscard ==
  /\ discard.stage = "sent"
  /\ IF Accepted(discard.session)
     THEN row' = NoRow /\ stray' = TRUE /\ DiscardAnswer("saved")
     ELSE UNCHANGED <<row, stray>> /\ DiscardAnswer("session_ended")
  /\ UNCHANGED <<pages, saved, late, editor, writer, promotion, save, signedIn, counts>>

LoseDiscard ==
  /\ discard.stage = "sent" \/ (discard.stage = "answered" /\ discard.result = "saved")
  /\ Disturbed
  /\ DiscardAnswer("failed")
  /\ UNCHANGED <<stored, editor, writer, promotion, save, signedIn>>

AnswerDiscard ==
  /\ discard.stage = "answered"
  /\ editor' =
       CASE discard.result = "saved" ->
              [editor EXCEPT !.persisted = Nothing, !.candidate = Nothing,
                             !.paused = FALSE, !.conflict = FALSE]
         [] discard.result = "failed" -> [editor EXCEPT !.paused = FALSE, !.conflict = FALSE]
         [] OTHER -> editor
  /\ discard' = NoDiscard
  /\ stray' = (stray /\ ~(discard.result = "saved" /\ AllGone /\ ~HasChanges))
  /\ UNCHANGED <<pages, row, saved, late, writer, promotion, save, signedIn, counts>>

-----------------------------------------------------------------------------
(* A request of a closed editor reaches the server after all.  One that    *)
(* never does is lost.                                                     *)

ServeLate(l) ==
  /\ l \in late
  /\ Accepted(l.request.session)
  /\ \/ /\ l.kind = "put"
        /\ ~PutRefused(l.request.target, l.request.revision)
        /\ StoreRow(l.request)
        /\ UNCHANGED <<pages, saved>>
     \/ /\ l.kind = "save"
        /\ \/ \E p \in PageIds : CreateSaved(l.request, p) \/ UpdateSaved(l.request, p)
           \/ CreateRefused(l.request)
     \/ /\ l.kind = "discard"
        /\ row' = NoRow
        /\ UNCHANGED <<pages, saved>>
  /\ late' = late \ {l}
  /\ stray' = TRUE
  /\ UNCHANGED <<editor, writer, promotion, save, discard, signedIn, counts>>

-----------------------------------------------------------------------------
User ==
  \/ Type \/ Restore \/ EndSession \/ Reauthenticate \/ Reopen \/ OtherTabPromotes
  \/ BeginSave \/ \E p \in PageIds : ChangePage(p)

Losses == LoseSave \/ LoseDiscard \/ \E c \in Calls : LosePut(c) \/ LosePromotion(c)

\* What the browser and the server do by themselves.
Machine ==
  \/ \E c \in Calls : StartCall(c) \/ ServePut(c) \/ FinishCall(c)
  \/ \E q \in Promoters : ReadPromotion(q) \/ CreatePromoted(q) \/ RereadPromotion(q) \/ ForgetPromotion(q)
  \/ OpenPromoted \/ ServeSave \/ AnswerSave \/ BeginDiscard \/ ServeDiscard \/ AnswerDiscard

Next == User \/ Losses \/ Machine \/ \E l \in late : ServeLate(l)

Spec == Init /\ [][Next]_vars

FairSpec == Spec /\ WF_vars(Machine)

-----------------------------------------------------------------------------
(* Properties.                                                             *)

Targets == PageIds \cup {NoTarget}
Drafts == Texts \cup {Original, Foreign}

\* The types of the tables, the hook and the requests; a reference to a Page
\* comes with a revision and names a Page that exists.
TypeOK ==
  /\ pages \in [PageIds -> [revision : Nat, text : Drafts,
                            origin : {"none", "loaded", "promotion", "save"}]]
  /\ row \in [target : Targets, base : Nat, text : Drafts \cup {Nothing}]
  /\ editor \in [target : Targets, revision : Nat, onPage : BOOLEAN, text : Drafts,
                 original : Drafts, persisted : Drafts \cup {Nothing}, candidate : Drafts \cup {Nothing},
                 discardDue : BOOLEAN, paused : BOOLEAN, conflict : BOOLEAN, session : Nat]
  /\ inFlight \in Calls \cup {NoCall}
  /\ crowded \in BOOLEAN /\ stray \in BOOLEAN
  /\ (row.target = NoTarget) <=> (row.base = 0)
  /\ (editor.target = NoTarget) <=> (editor.revision = 0)
  /\ \A p \in PageIds : p \in {row.target, editor.target} => Exists(p)

\* While the editor calls a draft recoverable, the server has that very text:
\* in the autosave, or in the Page that a Save whose reply was lost stored.
\* It can be wrong only where a request changed the row behind its back.
RecoverableIsStored ==
  Recoverable /\ ~stray => editor.text \in {row.text, saved.text}

\* Once the editor has a saved Page, no autosave of that Page, or of no Page
\* yet, holds a text older than the saved one: a write that the Save waited
\* for, and every write before it, cannot come back.
NoOlderCopy ==
  HasRow /\ ~stray /\ editor.target = saved.target /\ row.target \in {NoTarget, saved.target}
    => row.text >= saved.text

\* The editor stops on a conflict only where the server would go on refusing
\* it: an answer that a Save has overtaken must not block the writer.
ConflictIsReal ==
  editor.conflict /\ ~stray => PutRefused(editor.target, editor.revision)

\* A promotion makes a Page only of the text that is stored for a draft
\* without a Page, and that draft is bound to the Page in the same step.
PromotionIsExclusive ==
  [][\A p \in PageIds :
       ~Exists(p) /\ pages'[p].origin = "promotion" =>
         /\ row.target = NoTarget
         /\ row'.target = p
         /\ row'.text = pages'[p].text]_vars

\* A draft that differs from its Page gets stored, or the editor says that it
\* cannot be: it reports a conflict, asks for a new session, or is no longer
\* the one being edited.
ChangesGetStored ==
  (Active /\ ~Recoverable) ~> (Recoverable \/ ~Active \/ editor.conflict \/ ~signedIn)
=============================================================================
