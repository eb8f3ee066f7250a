------------------------ MODULE ContentAutosaveProofs ------------------------
(***************************************************************************)
(* Proofs about ContentAutosave for any number of calls, texts, Pages,     *)
(* Saves and disturbances: the types and references, the promotions, that  *)
(* what the editor calls recoverable is stored, that nothing older comes   *)
(* back, and that conflicts are real.                                      *)
(***************************************************************************)
EXTENDS ContentAutosave, TLAPS

Editors ==
  [target : Targets, revision : Nat, onPage : BOOLEAN, text : Drafts, original : Drafts,
   persisted : Drafts \cup {Nothing}, candidate : Drafts \cup {Nothing}, discardDue : BOOLEAN,
   paused : BOOLEAN, conflict : BOOLEAN, session : Nat]

Requests ==
  [stage : {"idle", "waiting", "put", "promote", "answered", "sent"},
   on : Calls \cup {NoCall}, target : Targets, revision : Nat,
   text : Drafts \cup {Nothing}, session : Nat,
   result : {"none", "saved", "conflict", "session_ended", "failed", "refused"}]

Promotions ==
  [stage : {"none", "sent", "read", "reread", "done"}, text : Drafts \cup {Nothing},
   target : Targets, revision : Nat]

LateRequests ==
  [kind : {"put", "save", "discard"}, by : Calls \cup {NoCall}, request : Requests]

\* A target comes with a revision, and its Page exists.
Refers(k) == ((k.target = NoTarget) <=> (k.revision = 0)) /\ (k.target # NoTarget => Exists(k.target))

\* The types, one part for each variable; a part depends on the Pages only
\* in that the Pages it refers to exist.
PagesInv ==
  /\ pages \in [PageIds -> [revision : Nat, text : Drafts,
                            origin : {"none", "loaded", "promotion", "save"}]]
  /\ \A p \in PageIds : pages[p].revision = 0 => ~Exists(p)

RowInv ==
  /\ row \in [target : Targets, base : Nat, text : Drafts \cup {Nothing}]
  /\ (row.target = NoTarget) <=> (row.base = 0)
  /\ row.target # NoTarget => Exists(row.target)
  /\ HasRow => row.text \in Drafts

EditorInv == editor \in Editors /\ Refers(editor)

\* What is written somewhere has a text.
CallsInv ==
  /\ call \in [Calls -> Requests]
  /\ \A c \in Calls : Refers(call[c])
  /\ \A c \in Calls : call[c].stage \notin {"idle", "waiting"} => call[c].text \in Drafts

PromotionsInv ==
  /\ promotion \in [Promoters -> Promotions]
  /\ \A q \in Promoters : Refers(promotion[q])
  /\ \A q \in Promoters : promotion[q].stage = "read" => promotion[q].text \in Texts

\* A call that has not asked for a promotion has none to answer it.
StagesInv ==
  \A c \in Calls : promotion[c] # NoPromotion => call[c].stage \in {"idle", "promote"}

SaveInv == save \in Requests /\ Refers(save) /\ (save # NoSave => save.text \in Drafts)

DiscardInv == discard \in Requests /\ Refers(discard)

LateInv ==
  /\ late \in SUBSET LateRequests
  /\ \A l \in late : Refers(l.request)
  /\ \A l \in late : l.kind # "discard" => l.request.text \in Drafts

RestInv ==
  /\ inFlight \in Calls \cup {NoCall}
  /\ crowded \in BOOLEAN /\ stray \in BOOLEAN /\ signedIn \in BOOLEAN
  /\ saved \in [target : Targets, text : Drafts]
  /\ counts \in [{"texts", "saves", "disturbances"} -> Nat]

Inv ==
  /\ PagesInv /\ RowInv /\ EditorInv /\ CallsInv /\ PromotionsInv /\ StagesInv
  /\ SaveInv /\ DiscardInv /\ LateInv /\ RestInv

LEMMA Constants ==
  /\ NoTarget \notin PageIds /\ NoTarget \in Targets /\ PageIds \subseteq Targets
  /\ Texts \subseteq Drafts /\ Original \in Drafts /\ Foreign \in Drafts /\ Nothing \notin Drafts
  /\ Calls \subseteq Promoters /\ OtherTab \in Promoters /\ OtherTab \notin Calls
  /\ IdleCall \in Requests /\ NoPromotion \in Promotions
  /\ Promotable \subseteq Texts
BY ConstantAssumption
   DEF NoTarget, PageIds, Targets, Texts, Drafts, Original, Foreign, Nothing, Promoters, IdleCall,
       Requests, NoPromotion, Promotions

LEMMA InvIsTypeOK == Inv => TypeOK
<1> SUFFICES ASSUME Inv PROVE TypeOK
  OBVIOUS
<1>1. \A p \in PageIds : p # NoTarget BY Constants
<1>2. \A p \in PageIds : p \in {row.target, editor.target} => Exists(p)
  BY <1>1 DEF Inv, RowInv, EditorInv, Refers
<1> QED BY <1>2 DEF Inv, PagesInv, RowInv, EditorInv, RestInv, TypeOK, Refers, Editors

\* Pages never go.
Grows == \A x \in PageIds : Exists(x) => Exists(x)'

LEMMA PartsStay ==
  ASSUME Inv, Grows
  PROVE  /\ row' = row => RowInv'
         /\ editor' = editor => EditorInv'
         /\ call' = call => CallsInv'
         /\ promotion' = promotion => PromotionsInv'
         /\ UNCHANGED <<call, promotion>> => StagesInv'
         /\ save' = save => SaveInv'
         /\ discard' = discard => DiscardInv'
         /\ late' = late => LateInv'
         /\ UNCHANGED <<inFlight, crowded, stray, signedIn, saved, counts>> => RestInv'
<1>1. \A t \in Targets : t # NoTarget => t \in PageIds BY DEF Targets
<1>2. row' = row => RowInv' BY <1>1 DEF Inv, RowInv, Grows, HasRow
<1>3. editor' = editor => EditorInv' BY <1>1 DEF Inv, EditorInv, Editors, Refers, Grows
<1>4. call' = call => CallsInv' BY <1>1 DEF Inv, CallsInv, Requests, Refers, Grows
<1>5. promotion' = promotion => PromotionsInv' BY <1>1 DEF Inv, PromotionsInv, Promotions, Refers, Grows
<1>6. save' = save => SaveInv' BY <1>1 DEF Inv, SaveInv, Requests, Refers, Grows
<1>7. discard' = discard => DiscardInv' BY <1>1 DEF Inv, DiscardInv, Requests, Refers, Grows
<1>8. late' = late => LateInv'
  <2>1. \A l \in late : l.request \in Requests BY DEF Inv, LateInv, LateRequests
  <2> QED BY <1>1, <2>1 DEF Inv, LateInv, Requests, Refers, Grows
<1> QED BY <1>2, <1>3, <1>4, <1>5, <1>6, <1>7, <1>8 DEF Inv, StagesInv, RestInv

LEMMA PagesStay ==
  ASSUME Inv, pages' = pages
  PROVE  PagesInv' /\ Grows
BY DEF Inv, PagesInv, Grows, Exists

LEMMA CountType ==
  ASSUME Inv, NEW k \in {"texts", "saves", "disturbances"}, Count(k)
  PROVE  counts' \in [{"texts", "saves", "disturbances"} -> Nat]
BY DEF Inv, RestInv, Count

\* An editor that is opened on a Page that exists, or on none.
LEMMA OpenedType ==
  ASSUME Inv, NEW p \in Targets, p # NoTarget => Exists(p), NEW session \in Nat
  PROVE  /\ Opened(p, session) \in Editors
         /\ Refers(Opened(p, session))
<1> USE Constants DEF Inv, PagesInv, RowInv, Editors
<1> DEFINE base == IF p = NoTarget THEN Original ELSE pages[p].text
           revision == IF p = NoTarget THEN 0 ELSE pages[p].revision
           found == HasRow /\ row.target = p
<1>1. p # NoTarget => p \in PageIds BY DEF Targets
<1>2. base \in Drafts /\ revision \in Nat BY <1>1
<1>3. found => row.text \in Drafts OBVIOUS
<1>4. (p = NoTarget) <=> (revision = 0) BY <1>1
<1> HIDE DEF base, revision
<1>5. Opened(p, session) =
        [target |-> p, revision |-> revision, onPage |-> p # NoTarget, text |-> base,
         original |-> base, persisted |-> IF found THEN row.text ELSE Nothing,
         candidate |-> IF found /\ row.text # base THEN row.text ELSE Nothing,
         discardDue |-> found /\ row.text = base,
         paused |-> FALSE, conflict |-> FALSE, session |-> session]
  BY DEF Opened, base, revision
<1>6. (found /\ row.text = base) \in BOOLEAN
  OBVIOUS
<1>7. /\ (IF found THEN row.text ELSE Nothing) \in Drafts \cup {Nothing}
      /\ (IF found /\ row.text # base THEN row.text ELSE Nothing) \in Drafts \cup {Nothing}
  BY <1>3
<1> HIDE DEF found
<1>8. Refers(Opened(p, session))
  BY <1>4, <1>5 DEF Refers
<1> QED BY <1>2, <1>5, <1>6, <1>7, <1>8

-----------------------------------------------------------------------------
(* Small facts about the operators.                                        *)

LEMMA PutType ==
  ASSUME Inv, NEW e \in Editors
  PROVE  /\ Put(e) \in Requests
         /\ Put(e).stage = "put" /\ Put(e).text = e.text
         /\ Put(e).target = e.target /\ Put(e).revision = e.revision
BY DEF Put, IdleCall, Requests, Editors

LEMMA PreparedType ==
  ASSUME Inv, NEW text \in Drafts \cup {Nothing}
  PROVE  /\ Prepared(text) \in Requests
         /\ Prepared(text).text = text
         /\ Prepared(text).stage \in {"sent", "waiting"}
         /\ Prepared(text).target = editor.target /\ Prepared(text).revision = editor.revision
<1> DEFINE stage == IF inFlight = NoCall THEN "sent" ELSE "waiting"
<1>1. Prepared(text) = [IdleCall EXCEPT
        !.stage = stage, !.on = inFlight, !.target = editor.target, !.revision = editor.revision,
        !.text = text, !.session = editor.session]
  BY DEF Prepared
<1>2. stage \in {"sent", "waiting"} OBVIOUS
<1> HIDE DEF stage
<1> QED BY <1>1, <1>2 DEF IdleCall, Requests, Inv, EditorInv, RestInv, Editors

LEMMA RememberedType ==
  ASSUME Inv, NEW a \in Promotions, Refers(a)
  PROVE  /\ Remembered(a) \in Editors /\ Refers(Remembered(a))
         /\ \/ Remembered(a) = editor
            \/ Remembered(a) = [editor EXCEPT !.target = a.target, !.revision = a.revision]
<1>1. editor \in Editors /\ Refers(editor) BY DEF Inv, EditorInv
<1>2. CASE Remembered(a) = editor BY <1>1, <1>2
<1>3. CASE Remembered(a) = [editor EXCEPT !.target = a.target, !.revision = a.revision]
  <2>1. /\ Remembered(a) \in Editors
        /\ Remembered(a).target = a.target /\ Remembered(a).revision = a.revision
    BY <1>1, <1>3 DEF Editors, Promotions
  <2> QED BY <1>3, <2>1 DEF Refers
<1> QED BY <1>2, <1>3 DEF Remembered

LEMMA AfterCallType ==
  ASSUME Inv, NEW c \in Calls
  PROVE  /\ AfterCall(Ended(call[c]), promotion[c]) \in Editors
         /\ Refers(AfterCall(Ended(call[c]), promotion[c]))
<1> DEFINE k == Ended(call[c])
           e == Remembered(promotion[c])
           persisted == IF k.result = "saved" THEN Persisted(k) ELSE e.persisted
           discardDue == e.discardDue \/ k.result = "saved"
           conflict == e.conflict \/ (k.result = "conflict" /\ Active)
           paused == e.paused \/ (k.result = "session_ended" /\ k.session = editor.session)
<1>1. e \in Editors /\ Refers(e)
  BY RememberedType, Constants DEF Inv, PromotionsInv
<1>2. k.text \in Drafts \cup {Nothing}
  BY DEF Inv, CallsInv, Requests, Ended
<1>3. AfterCall(k, promotion[c]) = [e EXCEPT !.persisted = persisted, !.discardDue = discardDue,
                                             !.conflict = conflict, !.paused = paused]
  BY DEF AfterCall
<1> HIDE DEF e, k
<1>4. persisted \in Drafts \cup {Nothing}
  BY <1>1, <1>2 DEF Persisted, Editors
<1>5. discardDue \in BOOLEAN /\ conflict \in BOOLEAN /\ paused \in BOOLEAN
  OBVIOUS
<1> HIDE DEF persisted, discardDue, conflict, paused
<1>6. /\ AfterCall(k, promotion[c]) \in Editors
      /\ AfterCall(k, promotion[c]).target = e.target /\ AfterCall(k, promotion[c]).revision = e.revision
  BY <1>1, <1>3, <1>4, <1>5 DEF Editors
<1> QED BY <1>1, <1>6 DEF Refers, k

-----------------------------------------------------------------------------
(* The steps.                                                              *)

\* Steps of the user and the editor that leave tables and requests alone.
LEMMA UserStep ==
  ASSUME Inv, Type \/ Restore \/ EndSession \/ Reauthenticate \/ OpenPromoted
  PROVE  Inv'
<1> USE DEF stored, writer
<1>1. UNCHANGED <<pages, row, late, call, promotion, save, discard, inFlight, crowded, stray, saved>>
  BY DEF Type, Restore, EndSession, Reauthenticate, OpenPromoted
<1>2. counts' \in [{"texts", "saves", "disturbances"} -> Nat]
  <2>1. CASE Type BY <2>1, CountType DEF Type
  <2>2. CASE EndSession BY <2>2, CountType DEF EndSession, Disturbed
  <2>3. CASE Restore \/ Reauthenticate \/ OpenPromoted
    BY <2>3 DEF Restore, Reauthenticate, OpenPromoted, Inv, RestInv
  <2> QED BY <2>1, <2>2, <2>3
<1>3. signedIn' \in BOOLEAN
  BY DEF Type, Restore, EndSession, Reauthenticate, OpenPromoted, Inv, RestInv
<1>4. EditorInv'
  <2>0. /\ editor \in Editors /\ Refers(editor) /\ counts.texts \in Nat
        /\ editor.target # NoTarget => editor.target \in PageIds
    BY DEF Inv, EditorInv, RestInv, Editors, Targets
  <2>1. ASSUME editor' \in Editors, editor'.target = editor.target, editor'.revision = editor.revision
        PROVE  EditorInv'
    BY <1>1, <2>0, <2>1 DEF EditorInv, Refers, Exists
  <2>2. CASE Type
    <3>1. counts.texts + 1 \in Drafts
      BY <2>0, <2>2, ConstantAssumption DEF Type, Drafts, Texts
    <3> QED BY <2>0, <2>1, <2>2, <3>1 DEF Type, Editors
  <2>3. CASE Restore
    <3>1. editor.candidate \in Drafts /\ Nothing \in Drafts \cup {Nothing}
      BY <2>0, <2>3 DEF Restore, Recovering, Editors
    <3>2. editor' = [editor EXCEPT !.text = editor.candidate, !.candidate = Nothing]
      BY <2>3 DEF Restore
    <3> QED BY <2>0, <2>1, <3>1, <3>2 DEF Editors
  <2>4. CASE EndSession BY <2>0, <2>1, <2>4 DEF EndSession
  <2>5. CASE Reauthenticate
    <3>0. editor.session + 1 \in Nat BY <2>0 DEF Editors
    <3>1. editor' = [editor EXCEPT !.session = editor.session + 1, !.paused = FALSE]
      BY <2>5 DEF Reauthenticate
    <3> QED BY <2>0, <2>1, <3>0, <3>1 DEF Editors
  <2>6. CASE OpenPromoted
    <3>1. editor.target \in Targets /\ (editor.target # NoTarget => Exists(editor.target)) /\ editor.session \in Nat
      BY <2>0 DEF Editors, Refers
    <3>2. editor' \in Editors /\ editor' = Opened(editor.target, editor.session) /\ Refers(editor')
      BY <2>6, <3>1, OpenedType DEF OpenPromoted
    <3> QED BY <1>1, <3>2 DEF EditorInv, Refers, Exists
  <2> QED BY <2>2, <2>3, <2>4, <2>5, <2>6
<1>5. RestInv' BY <1>1, <1>2, <1>3 DEF Inv, RestInv
<1> QED BY <1>1, <1>4, <1>5, PagesStay, PartsStay DEF Inv

\* The requests that a closed editor leaves behind.
LEMMA OnTheirWayType ==
  ASSUME Inv
  PROVE  /\ OnTheirWay \in SUBSET LateRequests
         /\ \A l \in OnTheirWay : Refers(l.request) /\ (l.kind # "discard" => l.request.text \in Drafts)
         /\ \A l \in OnTheirWay :
              \/ l.kind = "put" /\ \E c \in Calls : call[c].stage = "put" /\ l.request = call[c]
              \/ l.kind = "save" /\ l.request = save /\ save # NoSave
              \/ l.kind = "discard" /\ l.request = discard
<1> SUFFICES ASSUME NEW l \in OnTheirWay
             PROVE  /\ l \in LateRequests
                    /\ Refers(l.request) /\ (l.kind # "discard" => l.request.text \in Drafts)
                    /\ \/ l.kind = "put" /\ \E c \in Calls : call[c].stage = "put" /\ l.request = call[c]
                       \/ l.kind = "save" /\ l.request = save /\ save # NoSave
                       \/ l.kind = "discard" /\ l.request = discard
  OBVIOUS
<1>1. CASE \E c \in Calls : call[c].stage = "put" /\ l = [kind |-> "put", by |-> c, request |-> call[c]]
  BY <1>1 DEF Inv, CallsInv, LateRequests
<1>2. CASE l = [kind |-> "save", by |-> NoCall, request |-> save] /\ save.stage = "sent"
  BY <1>2 DEF Inv, SaveInv, LateRequests, NoSave, IdleCall
<1>3. CASE l = [kind |-> "discard", by |-> NoCall, request |-> discard]
  BY <1>3 DEF Inv, DiscardInv, LateRequests
<1> QED BY <1>1, <1>2, <1>3 DEF OnTheirWay

LEMMA ReopenStep ==
  ASSUME Inv, Reopen
  PROVE  Inv'
<1> DEFINE p == IF HasRow THEN row.target ELSE IF editor.onPage THEN editor.target ELSE NoTarget
<1>1. UNCHANGED <<pages, row, saved, stray, promotion, signedIn>>
  BY DEF Reopen
<1>2. p \in Targets /\ (p # NoTarget => Exists(p)) /\ editor.session \in Nat
  BY Constants DEF Inv, RowInv, EditorInv, Editors, Refers
<1>3. EditorInv'
  <2>1. editor' \in Editors /\ Refers(editor') BY <1>2, OpenedType DEF Reopen
  <2> QED BY <1>1, <2>1 DEF EditorInv, Refers, Exists
<1>4. /\ IdleCall \in Requests /\ IdleCall.target = NoTarget /\ IdleCall.revision = 0
      /\ IdleCall.stage = "idle"
  BY Constants DEF IdleCall
<1>5. CallsInv' /\ StagesInv'
  <2>1. call' = [c \in Calls |-> IdleCall] BY DEF Reopen
  <2> QED BY <1>4, <2>1 DEF CallsInv, StagesInv, Refers
<1>6. SaveInv' /\ DiscardInv'
  <2>1. save' = IdleCall /\ discard' = IdleCall /\ NoSave = IdleCall BY DEF Reopen, NoSave, NoDiscard
  <2> QED BY <1>4, <2>1 DEF SaveInv, DiscardInv, Refers
<1>7. LateInv'
  <2>1. late' = late \cup OnTheirWay BY DEF Reopen
  <2>2. \A l \in late' : Refers(l.request) /\ (l.kind # "discard" => l.request.text \in Drafts)
    BY <2>1, OnTheirWayType DEF Inv, LateInv
  <2> QED BY <1>1, <2>1, <2>2, OnTheirWayType DEF Inv, LateInv, Refers, Exists
<1>8. RestInv'
  BY <1>1, CountType DEF Reopen, Disturbed, Inv, RestInv
<1> QED BY <1>1, <1>3, <1>5, <1>6, <1>7, <1>8, PagesStay, PartsStay DEF Inv

-----------------------------------------------------------------------------
(* Writes of the autosave.                                                 *)

Results == {"none", "saved", "conflict", "session_ended", "failed", "refused"}

LEMMA AnswerType ==
  ASSUME Inv, NEW c \in Calls, NEW result \in Results, Answer(c, result)
  PROVE  /\ call' \in [Calls -> Requests]
         /\ \A d \in Calls \ {c} : call'[d] = call[d]
         /\ call'[c].stage = "answered" /\ call'[c].result = result
         /\ call'[c].text = call[c].text
         /\ call'[c].target = call[c].target /\ call'[c].revision = call[c].revision
         /\ call'[c].session = call[c].session
<1>1. call' = [call EXCEPT ![c] = [call[c] EXCEPT !.stage = "answered", !.result = result]]
  BY DEF Answer, Inv, CallsInv
<1>2. [call[c] EXCEPT !.stage = "answered", !.result = result] \in Requests
  BY DEF Inv, CallsInv, Requests, Results
<1> QED BY <1>1, <1>2 DEF Inv, CallsInv, Requests

LEMMA AnsweredCalls ==
  ASSUME Inv, NEW c \in Calls, call[c].stage \notin {"idle", "waiting"}, NEW result \in Results,
         Answer(c, result), pages' = pages
  PROVE  CallsInv'
<1>1. \A d \in Calls : call'[d].target = call[d].target /\ call'[d].revision = call[d].revision
  BY AnswerType
<1>2. \A d \in Calls : Refers(call[d])' BY <1>1 DEF Inv, CallsInv, Refers, Exists
<1>3. \A d \in Calls : call'[d].stage \notin {"idle", "waiting"} => call'[d].text \in Drafts
  BY AnswerType DEF Inv, CallsInv
<1> QED BY <1>2, <1>3, AnswerType DEF CallsInv

\* The row that a write stores is one of a Page that exists, and has a text.
LEMMA StoredRow ==
  ASSUME Inv, NEW k \in Requests, Refers(k), k.text \in Drafts, StoreRow(k), pages' = pages
  PROVE  /\ RowInv'
         /\ row'.target = k.target /\ row'.base = k.revision /\ row'.text = k.text
         /\ HasRow'
<1>1. row' = [target |-> k.target, base |-> k.revision, text |-> k.text]
  BY DEF StoreRow
<1>2. /\ row' \in [target : Targets, base : Nat, text : Drafts \cup {Nothing}]
      /\ row'.target = k.target /\ row'.base = k.revision /\ row'.text = k.text
  BY <1>1 DEF Requests
<1>3. HasRow' BY <1>2, Constants DEF HasRow, NoRow
<1> QED BY <1>2, <1>3 DEF RowInv, Refers, Exists, HasRow

LEMMA PutStep ==
  ASSUME Inv, NEW c \in Calls, ServePut(c) \/ LosePut(c)
  PROVE  Inv'
<1> DEFINE k == call[c]
<1>1. /\ k.stage = "put"
      /\ UNCHANGED <<pages, saved, late, editor, inFlight, crowded, save, discard, signedIn>>
  BY DEF ServePut, LosePut
<1>2. counts' \in [{"texts", "saves", "disturbances"} -> Nat]
  <2>1. CASE LosePut(c) BY <2>1, CountType DEF LosePut, Disturbed
  <2>2. CASE ServePut(c) BY <2>2 DEF ServePut, Inv, RestInv
  <2> QED BY <2>1, <2>2
<1>3. RowInv'
  <2>1. row' = row \/ StoreRow(k)
    BY DEF ServePut, LosePut
  <2>2. k \in Requests /\ Refers(k) /\ k.text \in Drafts BY <1>1 DEF Inv, CallsInv
  <2> QED BY <1>1, <2>1, <2>2, StoredRow, PagesStay, PartsStay
<1>4. promotion[c] = NoPromotion
  BY <1>1 DEF Inv, StagesInv
<1>5. CallsInv' /\ PromotionsInv' /\ StagesInv'
  <2>1. ASSUME NEW result \in Results, Answer(c, result), promotion' = promotion
        PROVE  CallsInv' /\ PromotionsInv' /\ StagesInv'
    <3>1. CallsInv' BY <1>1, <2>1, AnsweredCalls
    <3>2. StagesInv' BY <1>4, <2>1, AnswerType DEF Inv, StagesInv
    <3> QED BY <1>1, <2>1, <3>1, <3>2, PagesStay, PartsStay
  <2>2. ASSUME call' = [call EXCEPT ![c].stage = "promote"],
               promotion' = [promotion EXCEPT ![c].stage = "sent"]
        PROVE  CallsInv' /\ PromotionsInv' /\ StagesInv'
    <3>0. c \in Promoters BY Constants
    <3>1. /\ call' \in [Calls -> Requests]
          /\ call'[c].stage = "promote" /\ \A d \in Calls \ {c} : call'[d] = call[d]
          /\ \A d \in Calls : /\ call'[d].target = call[d].target /\ call'[d].revision = call[d].revision
                              /\ call'[d].text = call[d].text
      BY <2>2 DEF Inv, CallsInv, Requests
    <3>2. CallsInv'
      <4>1. \A d \in Calls : call'[d].stage \notin {"idle", "waiting"} => call'[d].text \in Drafts
        BY <1>1, <3>1 DEF Inv, CallsInv
      <4> QED BY <1>1, <3>1, <4>1 DEF Inv, CallsInv, Refers, Exists
    <3>3. /\ promotion' \in [Promoters -> Promotions] /\ promotion'[c].stage = "sent"
          /\ \A q \in Promoters : promotion'[q].target = promotion[q].target /\ promotion'[q].revision = promotion[q].revision
          /\ \A q \in Promoters \ {c} : promotion'[q] = promotion[q]
      BY <2>2, <3>0 DEF Inv, PromotionsInv, Promotions
    <3>4. PromotionsInv'
      <4>1. \A q \in Promoters : promotion'[q].stage = "read" => promotion'[q].text \in Texts
        BY <3>3 DEF Inv, PromotionsInv
      <4> QED BY <1>1, <3>3, <4>1 DEF Inv, PromotionsInv, Refers, Exists
    <3>5. StagesInv' BY <3>1, <3>3, Constants DEF Inv, StagesInv
    <3> QED BY <3>2, <3>4, <3>5
  <2>3. CASE LosePut(c)
    <3>1. Answer(c, "failed") /\ promotion' = promotion BY <2>3 DEF LosePut
    <3> QED BY <2>1, <3>1 DEF Results
  <2>4. CASE ServePut(c)
    <3>1. "session_ended" \in Results /\ "conflict" \in Results /\ "saved" \in Results BY DEF Results
    <3> QED BY <2>1, <2>2, <2>4, <3>1 DEF ServePut
  <2> QED BY <2>3, <2>4
<1>6. stray' \in BOOLEAN
  <2>1. StrayAfter(k) \in BOOLEAN BY DEF StrayAfter, Inv, RestInv
  <2> QED BY <2>1 DEF ServePut, LosePut, Inv, RestInv
<1>7. RestInv' BY <1>1, <1>2, <1>6 DEF Inv, RestInv
<1> QED BY <1>1, <1>3, <1>5, <1>7, PagesStay, PartsStay DEF Inv

LEMMA StartStep ==
  ASSUME Inv, NEW c \in Calls, StartCall(c)
  PROVE  Inv'
<1> DEFINE waiting == [IdleCall EXCEPT !.stage = "waiting", !.on = inFlight]
<1>1. UNCHANGED <<pages, row, saved, late, stray, crowded, editor, promotion, save, discard, signedIn, counts>>
  BY DEF StartCall, stored
<1>2. editor \in Editors /\ Refers(editor) /\ inFlight \in Calls \cup {NoCall}
  BY DEF Inv, EditorInv, RestInv
<1>3. Put(editor) \in Requests /\ Refers(Put(editor)) /\ Put(editor).text \in Drafts
  BY <1>2, PutType DEF Refers, Editors
<1>4. waiting \in Requests /\ Refers(waiting) /\ waiting.stage = "waiting"
  BY <1>2, Constants DEF IdleCall, Requests, Refers
<1> HIDE DEF waiting
<1>5. PICK k \in {Put(editor), waiting} : call' = [call EXCEPT ![c] = k]
  BY DEF StartCall, waiting
<1>6. call' \in [Calls -> Requests] /\ call'[c] = k /\ \A d \in Calls \ {c} : call'[d] = call[d]
  BY <1>3, <1>4, <1>5 DEF Inv, CallsInv
<1>7. inFlight' \in Calls \cup {NoCall}
  BY <1>2 DEF StartCall
<1>8. CallsInv'
  <2>1. \A d \in Calls : Refers(call'[d])
    BY <1>3, <1>4, <1>6 DEF Inv, CallsInv
  <2>2. \A d \in Calls : call'[d].stage \notin {"idle", "waiting"} => call'[d].text \in Drafts
    BY <1>3, <1>4, <1>6 DEF Inv, CallsInv
  <2> QED BY <1>1, <1>6, <2>1, <2>2 DEF CallsInv, Refers, Exists
<1>9. StagesInv'
  BY <1>1, <1>6 DEF StartCall, Free, Inv, StagesInv
<1>10. RestInv' BY <1>1, <1>7 DEF Inv, RestInv
<1> QED BY <1>1, <1>8, <1>9, <1>10, PagesStay, PartsStay DEF Inv

-----------------------------------------------------------------------------
(* Promotions.                                                             *)

\* Promotion q is replaced by g, which is as good as any.
LEMMA PromotionReplaced ==
  ASSUME Inv, NEW q \in Promoters, NEW g \in Promotions, promotion' = [promotion EXCEPT ![q] = g],
         Refers(g)', Grows, g.stage = "read" => g.text \in Texts
  PROVE  /\ PromotionsInv'
         /\ promotion'[q] = g /\ \A r \in Promoters \ {q} : promotion'[r] = promotion[r]
<1>1. /\ promotion' \in [Promoters -> Promotions] /\ promotion'[q] = g
      /\ \A r \in Promoters \ {q} : promotion'[r] = promotion[r]
  BY DEF Inv, PromotionsInv
<1>2. \A r \in Promoters \ {q} : Refers(promotion[r])'
  <2>1. \A t \in Targets : t # NoTarget => t \in PageIds BY DEF Targets
  <2> QED BY <1>1, <2>1 DEF Inv, PromotionsInv, Promotions, Refers, Grows
<1>3. \A r \in Promoters : Refers(promotion[r])' BY <1>1, <1>2
<1>4. \A r \in Promoters : promotion'[r].stage = "read" => promotion'[r].text \in Texts
  BY <1>1 DEF Inv, PromotionsInv
<1> QED BY <1>1, <1>3, <1>4 DEF PromotionsInv

LEMMA AnswerRefers ==
  ASSUME Inv, NEW q \in Promoters, NEW p \in Targets, NEW revision \in Nat,
         PromotionAnswer(q, p, revision)
  PROVE  \E g \in Promotions :
           /\ promotion' = [promotion EXCEPT ![q] = g]
           /\ g.stage = "done" /\ g.target = p /\ g.revision = revision
<1> DEFINE g == [NoPromotion EXCEPT !.stage = "done", !.target = p, !.revision = revision]
<1>1. g \in Promotions /\ g.stage = "done" /\ g.target = p /\ g.revision = revision
  BY Constants DEF NoPromotion, Promotions
<1> QED BY <1>1 DEF PromotionAnswer

LEMMA BoundAnswer ==
  ASSUME Inv, NEW q \in Promoters, AnswerBound(q), UNCHANGED <<pages, row>>
  PROVE  \E g \in Promotions :
           /\ promotion' = [promotion EXCEPT ![q] = g]
           /\ g.stage = "done" /\ g.target = row.target /\ Refers(g)'
           /\ row.target # NoTarget => g.revision = pages[row.target].revision
<1> DEFINE revision == IF row.target = NoTarget THEN 0 ELSE pages[row.target].revision
<1>1. /\ row.target \in Targets /\ revision \in Nat
      /\ (row.target = NoTarget) <=> (revision = 0)
      /\ row.target # NoTarget => Exists(row.target)'
  <2>1. row.target \in Targets /\ (row.target # NoTarget => row.target \in PageIds /\ Exists(row.target))
    BY DEF Inv, RowInv, Targets
  <2>2. row.target # NoTarget => pages[row.target].revision \in Nat /\ pages[row.target].revision # 0
    BY <2>1 DEF Inv, PagesInv
  <2>3. row.target # NoTarget => Exists(row.target)'
    BY <2>1 DEF Exists
  <2> QED BY <2>1, <2>2, <2>3
<1>2. row.target # NoTarget => revision = pages[row.target].revision
  OBVIOUS
<1> HIDE DEF revision
<1>3. PICK g \in Promotions : /\ promotion' = [promotion EXCEPT ![q] = g]
                              /\ g.stage = "done" /\ g.target = row.target /\ g.revision = revision
  BY <1>1, AnswerRefers DEF AnswerBound, revision
<1> QED BY <1>1, <1>2, <1>3 DEF Refers

\* Promotion steps that leave the Pages alone.
LEMMA ReadStep ==
  ASSUME Inv, NEW q \in Promoters,
         ReadPromotion(q) \/ RereadPromotion(q) \/ OtherTabPromotes \/ ForgetPromotion(q)
  PROVE  Inv'
<1> USE DEF stored, writer
<1>1. /\ UNCHANGED <<pages, row, saved, late, stray, editor, inFlight, call, crowded, save, discard, signedIn>>
  BY DEF ReadPromotion, RereadPromotion, OtherTabPromotes, ForgetPromotion
<1>2. RestInv'
  <2>1. CASE OtherTabPromotes
    <3>1. counts' \in [{"texts", "saves", "disturbances"} -> Nat]
      BY <2>1, CountType DEF OtherTabPromotes, Disturbed
    <3> QED BY <1>1, <3>1 DEF Inv, RestInv
  <2>2. CASE ReadPromotion(q) \/ RereadPromotion(q) \/ ForgetPromotion(q)
    BY <1>1, <2>2 DEF ReadPromotion, RereadPromotion, ForgetPromotion, Inv, RestInv
  <2> QED BY <2>1, <2>2
<1>3. Grows BY <1>1, PagesStay
<1>4. CASE ReadPromotion(q) \/ RereadPromotion(q)
  <2>0. promotion[q] # NoPromotion
    BY <1>4 DEF ReadPromotion, RereadPromotion, NoPromotion
  <2>1. PICK g \in Promotions : /\ promotion' = [promotion EXCEPT ![q] = g]
                                /\ Refers(g)' /\ (g.stage = "read" => g.text \in Texts)
    <3>1. CASE AnswerBound(q)
      <4>1. PICK g \in Promotions : /\ promotion' = [promotion EXCEPT ![q] = g]
                                    /\ g.stage = "done" /\ Refers(g)'
        BY <1>1, <3>1, BoundAnswer
      <4> QED BY <4>1
    <3>2. CASE row.text \in Promotable /\ promotion' = [promotion EXCEPT ![q] = [promotion[q] EXCEPT !.stage = "read", !.text = row.text]]
      <4>0. PICK g : g = [promotion[q] EXCEPT !.stage = "read", !.text = row.text]
        OBVIOUS
      <4>1. promotion[q] \in Promotions /\ Refers(promotion[q]) /\ row.text \in Texts /\ row.text \in Drafts
        BY <3>2, Constants DEF Inv, PromotionsInv
      <4>2. g \in Promotions /\ g.target = promotion[q].target /\ g.revision = promotion[q].revision /\ g.text = row.text
        BY <4>0, <4>1 DEF Promotions
      <4>3. Refers(g)' BY <1>1, <4>1, <4>2 DEF Refers, Exists
      <4> QED BY <3>2, <4>0, <4>1, <4>2, <4>3
    <3> QED BY <1>4, <3>1, <3>2 DEF ReadPromotion, RereadPromotion
  <2>2. PromotionsInv' /\ \A r \in Promoters \ {q} : promotion'[r] = promotion[r]
    BY <1>3, <2>1, PromotionReplaced
  <2>3. StagesInv' BY <1>1, <2>0, <2>2, Constants DEF Inv, StagesInv
  <2> QED BY <1>1, <1>2, <2>2, <2>3, PagesStay, PartsStay DEF Inv
<1>5. CASE OtherTabPromotes
  <2> DEFINE g == [NoPromotion EXCEPT !.stage = "sent"]
  <2>1. g \in Promotions /\ Refers(g)' /\ g.stage = "sent"
    BY Constants DEF NoPromotion, Promotions, Refers
  <2>2. promotion' = [promotion EXCEPT ![OtherTab] = g]
    BY <1>5 DEF OtherTabPromotes
  <2> HIDE DEF g
  <2>3. PromotionsInv' /\ \A r \in Promoters \ {OtherTab} : promotion'[r] = promotion[r]
    BY <1>3, <2>1, <2>2, Constants, PromotionReplaced
  <2>4. StagesInv' BY <1>1, <2>3, Constants DEF Inv, StagesInv
  <2> QED BY <1>1, <1>2, <2>3, <2>4, PagesStay, PartsStay DEF Inv
<1>6. CASE ForgetPromotion(q)
  <2>1. NoPromotion \in Promotions /\ Refers(NoPromotion)' /\ NoPromotion.stage = "none"
    BY Constants DEF NoPromotion, Refers
  <2>2. promotion' = [promotion EXCEPT ![q] = NoPromotion]
    BY <1>6 DEF ForgetPromotion
  <2>3. PromotionsInv' /\ promotion'[q] = NoPromotion /\ \A r \in Promoters \ {q} : promotion'[r] = promotion[r]
    BY <1>3, <2>1, <2>2, PromotionReplaced
  <2>4. StagesInv' BY <1>1, <2>3, Constants DEF Inv, StagesInv
  <2> QED BY <1>1, <1>2, <2>3, <2>4, PagesStay, PartsStay DEF Inv
<1> QED BY <1>4, <1>5, <1>6

LEMMA LosePromotionStep ==
  ASSUME Inv, NEW c \in Calls, LosePromotion(c)
  PROVE  Inv'
<1>0. c \in Promoters BY Constants
<1>1. UNCHANGED <<pages, row, saved, late, stray, editor, inFlight, crowded, save, discard, signedIn>>
  BY DEF LosePromotion, stored
<1>2. Answer(c, "saved") /\ call[c].stage = "promote" BY DEF LosePromotion
<1>3. CallsInv' /\ \A d \in Calls \ {c} : call'[d] = call[d]
  BY <1>1, <1>2, AnsweredCalls, AnswerType DEF Results
<1>4. NoPromotion \in Promotions /\ Refers(NoPromotion)' /\ NoPromotion.stage = "none"
  BY Constants DEF NoPromotion, Refers
<1>5. promotion' = [promotion EXCEPT ![c] = NoPromotion] BY DEF LosePromotion
<1>6. PromotionsInv' /\ promotion'[c] = NoPromotion /\ \A r \in Promoters \ {c} : promotion'[r] = promotion[r]
  BY <1>0, <1>1, <1>4, <1>5, PagesStay, PromotionReplaced
<1>7. StagesInv' BY <1>3, <1>6, Constants DEF Inv, StagesInv
<1>8. RestInv' BY <1>1, CountType DEF LosePromotion, Disturbed, Inv, RestInv
<1> QED BY <1>1, <1>3, <1>6, <1>7, <1>8, PagesStay, PartsStay DEF Inv

-----------------------------------------------------------------------------
(* Writes of Pages.                                                        *)

Origins == {"none", "loaded", "promotion", "save"}
Written == [revision : Nat \ {0}, text : Drafts, origin : Origins]

\* A Page that is written with a revision exists, and no other Page goes.
LEMMA PageWritten ==
  ASSUME Inv, NEW p \in PageIds, NEW g \in Written, pages' = [pages EXCEPT ![p] = g]
  PROVE  /\ PagesInv' /\ Grows /\ Exists(p)'
         /\ pages'[p] = g /\ \A x \in PageIds \ {p} : pages'[x] = pages[x]
<1>1. pages'[p] = g /\ \A x \in PageIds \ {p} : pages'[x] = pages[x]
  BY DEF Inv, PagesInv
<1>2. /\ pages'[p] # NoPage /\ pages'[p].revision # 0
      /\ pages'[p] \in [revision : Nat, text : Drafts, origin : Origins]
  BY <1>1 DEF NoPage, Written
<1> QED BY <1>1, <1>2 DEF Origins, Inv, PagesInv, Exists, Grows

LEMMA CreatePromotedStep ==
  ASSUME Inv, NEW q \in Promoters, CreatePromoted(q)
  PROVE  Inv'
<1>0. /\ UNCHANGED <<saved, late, stray, editor, inFlight, crowded, call, save, discard, signedIn, counts>>
      /\ promotion[q].stage = "read" /\ promotion[q] \in Promotions /\ promotion[q].text \in Texts
      /\ Refers(promotion[q]) /\ promotion[q] # NoPromotion
  <2>1. /\ UNCHANGED <<saved, late, stray, editor, inFlight, crowded, call, save, discard, signedIn, counts>>
        /\ promotion[q].stage = "read"
    BY DEF CreatePromoted, writer
  <2>2. promotion[q] \in Promotions /\ promotion[q].text \in Texts /\ Refers(promotion[q])
    BY <2>1 DEF Inv, PromotionsInv
  <2>3. promotion[q] # NoPromotion BY <2>1 DEF NoPromotion
  <2> QED BY <2>1, <2>2, <2>3
<1>1. RestInv' BY <1>0 DEF Inv, RestInv
<1>2. ASSUME PromotionsInv', \A r \in Promoters \ {q} : promotion'[r] = promotion[r]
      PROVE  StagesInv'
  BY <1>0, <1>2, Constants DEF Inv, StagesInv
<1>3. ASSUME NEW p \in PageIds, StillUnbound(promotion[q].text),
             pages' = [pages EXCEPT ![p] = [revision |-> 1, text |-> promotion[q].text, origin |-> "promotion"]],
             row' = [row EXCEPT !.target = p, !.base = 1],
             PromotionAnswer(q, p, 1)
      PROVE  Inv'
  <2>1. p \in Targets /\ p # NoTarget BY Constants
  <2>2. PagesInv' /\ Exists(p)' /\ Grows
    <3> DEFINE g == [revision |-> 1, text |-> promotion[q].text, origin |-> "promotion"]
    <3>1. g \in Written BY <1>0, Constants DEF Written, Origins
    <3> HIDE DEF g
    <3> QED BY <1>3, <3>1, PageWritten DEF g
  <2>3. PICK g \in Promotions : /\ promotion' = [promotion EXCEPT ![q] = g]
                                /\ g.stage = "done" /\ g.target = p /\ g.revision = 1
    BY <1>3, <2>1, AnswerRefers
  <2>4. PromotionsInv' /\ \A r \in Promoters \ {q} : promotion'[r] = promotion[r]
    <3>1. Refers(g)' BY <2>1, <2>2, <2>3 DEF Refers
    <3> QED BY <2>2, <2>3, <3>1, PromotionReplaced
  <2>5. RowInv'
    <3>1. /\ row' \in [target : Targets, base : Nat, text : Drafts \cup {Nothing}]
          /\ row'.target = p /\ row'.base = 1 /\ row'.text = row.text
      BY <1>3, <2>1 DEF Inv, RowInv
    <3>2. row'.text \in Drafts BY <1>3, <3>1 DEF StillUnbound, Inv, RowInv
    <3> QED BY <2>1, <2>2, <3>1, <3>2 DEF RowInv
  <2> QED BY <1>0, <1>1, <1>2, <2>2, <2>4, <2>5, PartsStay DEF Inv
<1>4. ASSUME NEW g \in Promotions, promotion' = [promotion EXCEPT ![q] = g],
             Refers(g), g.stage # "read", UNCHANGED <<pages, row>>
      PROVE  Inv'
  <2>1. Refers(g)' /\ Grows BY <1>4, PagesStay DEF Refers, Exists
  <2>2. PromotionsInv' /\ \A r \in Promoters \ {q} : promotion'[r] = promotion[r]
    BY <1>4, <2>1, PromotionReplaced
  <2> QED BY <1>0, <1>1, <1>2, <1>4, <2>2, PagesStay, PartsStay DEF Inv
<1>5. ASSUME PromotionAnswer(q, NoTarget, 0), UNCHANGED <<pages, row>>
      PROVE  Inv'
  <2>1. PICK g \in Promotions : /\ promotion' = [promotion EXCEPT ![q] = g]
                                /\ g.stage = "done" /\ g.target = NoTarget /\ g.revision = 0
    BY <1>5, AnswerRefers, Constants
  <2> QED BY <1>4, <1>5, <2>1 DEF Refers
<1>6. ASSUME promotion' = [promotion EXCEPT ![q].stage = "reread"], UNCHANGED <<pages, row>>
      PROVE  Inv'
  <2>0. PICK g : g = [promotion[q] EXCEPT !.stage = "reread"] OBVIOUS
  <2>1. /\ g \in Promotions /\ g.stage = "reread"
        /\ g.target = promotion[q].target /\ g.revision = promotion[q].revision
    BY <1>0, <2>0 DEF Promotions
  <2>2. promotion' = [promotion EXCEPT ![q] = g] BY <1>6, <2>0
  <2> QED BY <1>0, <1>4, <1>6, <2>1, <2>2 DEF Refers
<1>7. ASSUME StillUnbound(promotion[q].text) PROVE row.text = promotion[q].text
  BY <1>7 DEF StillUnbound
<1> QED BY <1>3, <1>5, <1>6, <1>7 DEF CreatePromoted

LEMMA ChangePageStep ==
  ASSUME Inv, NEW p \in PageIds, ChangePage(p)
  PROVE  Inv'
<1>1. UNCHANGED <<row, saved, late, stray, editor, inFlight, crowded, call, promotion, save, discard, signedIn>>
  BY DEF ChangePage, writer
<1>2. RestInv'
  BY <1>1, CountType DEF ChangePage, Disturbed, Inv, RestInv
<1>3. PagesInv' /\ Grows
  <2>1. pages[p] \in [revision : Nat, text : Drafts, origin : Origins]
    BY DEF Inv, PagesInv, Origins
  <2>2. PICK g : g = [pages[p] EXCEPT !.revision = pages[p].revision + 1, !.text = Foreign]
    OBVIOUS
  <2>3. pages[p].revision + 1 \in Nat \ {0} BY <2>1
  <2>4. g \in Written BY <2>1, <2>2, <2>3, Constants DEF Written
  <2>5. pages' = [pages EXCEPT ![p] = g] BY <2>2 DEF ChangePage, Inv, PagesInv
  <2> QED BY <2>4, <2>5, PageWritten
<1> QED BY <1>1, <1>2, <1>3, PartsStay DEF Inv

\* What a Save of a request stores, from this editor or from a closed one.
LEMMA PageSaved ==
  ASSUME Inv, NEW k \in Requests, Refers(k), k.text \in Drafts, NEW p \in PageIds,
         CreateSaved(k, p) \/ UpdateSaved(k, p)
  PROVE  /\ PagesInv' /\ Grows /\ Exists(p)' /\ RowInv'
         /\ saved' = [target |-> p, text |-> k.text]
         /\ row' \in {row, NoRow}
         /\ pages'[p].revision \in Nat \ {0} /\ pages'[p].text = k.text
         /\ pages[p].revision <= pages'[p].revision
         /\ \A x \in PageIds \ {p} : pages'[x] = pages[x]
<1>1. /\ saved' = [target |-> p, text |-> k.text]
      /\ row' \in {row, NoRow}
  BY DEF CreateSaved, UpdateSaved, WithoutDraft, WithoutRow
<1>2. PICK g \in Written : /\ pages' = [pages EXCEPT ![p] = g]
                           /\ g.text = k.text /\ pages[p].revision <= g.revision
  <2>0. /\ pages[p] \in [revision : Nat, text : Drafts, origin : Origins]
        /\ pages[p].revision = 0 => ~Exists(p)
    BY DEF Inv, PagesInv, Origins
  <2>1. CASE CreateSaved(k, p)
    <3>1. PICK g : g = [revision |-> 1, text |-> k.text, origin |-> "save"] OBVIOUS
    <3>2. g \in Written /\ g.revision = 1 /\ g.text = k.text BY <3>1 DEF Written, Origins
    <3>3. pages[p].revision = 0 BY <2>1 DEF CreateSaved, NewPage, Exists, NoPage
    <3>4. pages' = [pages EXCEPT ![p] = g] BY <2>1, <3>1 DEF CreateSaved
    <3>5. pages[p].revision <= g.revision BY <3>2, <3>3
    <3> QED BY <3>2, <3>4, <3>5
  <2>2. CASE UpdateSaved(k, p)
    <3>1. k.target = p /\ p # NoTarget /\ pages[p].revision = k.revision BY <2>2 DEF UpdateSaved
    <3>2. pages[p].revision # 0 BY <3>1 DEF Refers
    <3>3. PICK r : r = IF pages[p].text = k.text THEN pages[p].revision ELSE pages[p].revision + 1
      OBVIOUS
    <3>4. r \in Nat \ {0} /\ pages[p].revision <= r BY <2>0, <3>2, <3>3
    <3>5. PICK g : g = [pages[p] EXCEPT !.text = k.text, !.revision = r] OBVIOUS
    <3>6. g \in Written /\ g.revision = r /\ g.text = k.text BY <2>0, <3>4, <3>5 DEF Written
    <3>7. pages' = [pages EXCEPT ![p] = g] BY <2>2, <3>3, <3>5 DEF UpdateSaved, Inv, PagesInv
    <3> QED BY <3>4, <3>6, <3>7
  <2> QED BY <2>1, <2>2
<1>3. /\ PagesInv' /\ Grows /\ Exists(p)'
      /\ pages'[p] = g /\ \A x \in PageIds \ {p} : pages'[x] = pages[x]
  BY <1>2, PageWritten
<1>4. g.revision \in Nat \ {0} BY DEF Written
<1>5. RowInv'
  <2>1. CASE row' = row BY <1>3, <2>1, PartsStay
  <2>2. CASE row' = NoRow
    BY <2>2, Constants DEF NoRow, RowInv, HasRow
  <2> QED BY <1>1, <2>1, <2>2
<1> QED BY <1>1, <1>2, <1>3, <1>4, <1>5

LEMMA EmptyRow ==
  ASSUME row' = NoRow
  PROVE  RowInv' /\ ~HasRow'
BY Constants DEF NoRow, RowInv, HasRow

LEMMA SaveAnswerType ==
  ASSUME Inv, NEW result \in Results, NEW target \in Targets, NEW revision \in Nat,
         SaveAnswer(result, target, revision)
  PROVE  /\ save' \in Requests /\ save'.target = target /\ save'.revision = revision
         /\ save'.text = save.text /\ save'.stage = "answered" /\ save'.result = result
BY DEF SaveAnswer, Inv, SaveInv, Requests, Results

LEMMA ServeSaveStep ==
  ASSUME Inv, ServeSave
  PROVE  Inv'
<1>0. /\ save.stage = "sent" /\ save \in Requests /\ Refers(save) /\ save # NoSave
      /\ save.text \in Drafts /\ save.target \in Targets /\ save.revision \in Nat
      /\ UNCHANGED <<late, editor, inFlight, crowded, call, promotion, discard, signedIn, counts>>
  BY DEF ServeSave, writer, NoSave, IdleCall, Inv, SaveInv, Requests
<1>1. ASSUME PagesInv', Grows, RowInv', saved' \in [target : Targets, text : Drafts], stray' \in BOOLEAN,
             NEW result \in Results, NEW target \in Targets, NEW revision \in Nat,
             SaveAnswer(result, target, revision),
             (target = NoTarget) <=> (revision = 0), target # NoTarget => Exists(target)'
      PROVE  Inv'
  <2>1. /\ save' \in Requests /\ save'.target = target /\ save'.revision = revision
        /\ save'.text = save.text
    BY <1>1, SaveAnswerType
  <2>2. SaveInv' BY <1>0, <1>1, <2>1 DEF SaveInv, Refers
  <2>3. RestInv' BY <1>0, <1>1 DEF Inv, RestInv
  <2> QED BY <1>0, <1>1, <2>2, <2>3, PartsStay DEF Inv
<1>2. stray' \in BOOLEAN
  BY DEF ServeSave, Inv, RestInv
<1>3. ASSUME UNCHANGED <<pages, saved>>, row' \in {row, NoRow},
             NEW result \in Results, SaveAnswer(result, save.target, save.revision)
      PROVE  Inv'
  <2>1. RowInv'
    BY <1>3, EmptyRow, PagesStay, PartsStay
  <2>2. saved' \in [target : Targets, text : Drafts] BY <1>3 DEF Inv, RestInv
  <2>3. PagesInv' /\ Grows BY <1>3, PagesStay
  <2>4. (save.target = NoTarget) <=> (save.revision = 0) BY <1>0 DEF Refers
  <2>5. save.target # NoTarget => save.target \in PageIds /\ Exists(save.target)
    BY <1>0 DEF Refers, Targets
  <2>6. PICK t \in Targets, r \in Nat : t = save.target /\ r = save.revision BY <1>0
  <2>7. t # NoTarget => Exists(t)' BY <1>3, <2>5, <2>6 DEF Exists
  <2> QED BY <1>1, <1>2, <1>3, <2>1, <2>2, <2>3, <2>4, <2>6, <2>7
<1>4. ASSUME NEW p \in PageIds, CreateSaved(save, p) \/ UpdateSaved(save, p),
             SaveAnswer("saved", p, pages'[p].revision)
      PROVE  Inv'
  <2>1. /\ PagesInv' /\ Grows /\ Exists(p)' /\ RowInv'
        /\ saved' = [target |-> p, text |-> save.text]
        /\ pages'[p].revision \in Nat \ {0}
    BY <1>0, <1>4, PageSaved
  <2>2. "saved" \in Results /\ p \in Targets /\ p # NoTarget BY Constants DEF Results
  <2>3. saved' \in [target : Targets, text : Drafts] BY <1>0, <2>1, <2>2
  <2> QED BY <1>1, <1>2, <1>4, <2>1, <2>2, <2>3
<1>5. CASE CreateRefused(save) /\ SaveAnswer("refused", NoTarget, 0)
  <2>1. save.target = NoTarget /\ save.revision = 0 /\ row' \in {row, NoRow} /\ UNCHANGED <<pages, saved>>
    BY <1>0, <1>5 DEF CreateRefused, WithoutDraft, Refers
  <2> QED BY <1>3, <1>5, <2>1 DEF Results
<1>6. "session_ended" \in Results /\ "refused" \in Results BY DEF Results
<1> QED BY <1>3, <1>4, <1>5, <1>6 DEF ServeSave

LEMMA SaveStep ==
  ASSUME Inv, BeginSave \/ LoseSave \/ AnswerSave
  PROVE  Inv'
<1> USE DEF stored, writer
<1>1. /\ UNCHANGED <<pages, row, saved, late, inFlight, crowded, call, promotion, discard, signedIn>>
      /\ save \in Requests /\ Refers(save) /\ editor \in Editors /\ Refers(editor)
      /\ save # NoSave => save.text \in Drafts
  BY DEF BeginSave, LoseSave, AnswerSave, Inv, SaveInv, EditorInv
<1>2. RestInv'
  <2>1. counts' \in [{"texts", "saves", "disturbances"} -> Nat]
    <3>1. CASE BeginSave BY <3>1, CountType DEF BeginSave
    <3>2. CASE LoseSave BY <3>2, CountType DEF LoseSave, Disturbed
    <3>3. CASE AnswerSave BY <3>3 DEF AnswerSave, Inv, RestInv
    <3> QED BY <3>1, <3>2, <3>3
  <2>2. stray' \in BOOLEAN BY DEF BeginSave, LoseSave, AnswerSave, Inv, RestInv
  <2> QED BY <1>1, <2>1, <2>2 DEF Inv, RestInv
<1>3. ASSUME save' \in Requests, Refers(save'), editor' \in Editors, Refers(editor'),
             save' # NoSave => save'.text \in Drafts
      PROVE  Inv'
  <2>1. SaveInv' /\ EditorInv' BY <1>1, <1>3 DEF SaveInv, EditorInv, Refers, Exists
  <2> QED BY <1>1, <1>2, <2>1, PagesStay, PartsStay DEF Inv
<1>4. CASE BeginSave
  <2>1. /\ Prepared(editor.text) \in Requests /\ Prepared(editor.text).text = editor.text
        /\ Prepared(editor.text).target = editor.target /\ Prepared(editor.text).revision = editor.revision
    BY <1>1, PreparedType DEF Editors
  <2>2. save' = Prepared(editor.text) /\ editor' = [editor EXCEPT !.paused = TRUE, !.conflict = FALSE]
    BY <1>4 DEF BeginSave
  <2>3. /\ editor' \in Editors /\ editor'.target = editor.target /\ editor'.revision = editor.revision
    BY <1>1, <2>2 DEF Editors
  <2>4. Refers(save') /\ Refers(editor') BY <1>1, <2>1, <2>2, <2>3 DEF Refers
  <2>5. editor.text \in Drafts BY <1>1 DEF Editors
  <2> QED BY <1>3, <2>1, <2>2, <2>3, <2>4, <2>5
<1>5. CASE LoseSave
  <2>1. save' \in Requests /\ save'.target = save.target /\ save'.revision = save.revision /\ save'.text = save.text
    BY <1>1, <1>5, SaveAnswerType DEF LoseSave, Results, Requests
  <2>2. save # NoSave BY <1>5 DEF LoseSave, NoSave, IdleCall
  <2>3. editor' = editor BY <1>5 DEF LoseSave
  <2> QED BY <1>1, <1>3, <2>1, <2>2, <2>3 DEF Refers
<1>6. CASE AnswerSave
  <2>1. save # NoSave BY <1>6 DEF AnswerSave, NoSave, IdleCall
  <2>2. PICK paused \in BOOLEAN : paused = PausedAfter(save.result) BY DEF PausedAfter
  <2>3. save' = NoSave /\ NoSave \in Requests /\ Refers(NoSave)
    BY <1>6, Constants DEF AnswerSave, NoSave, IdleCall, Refers
  <2>4. CASE save.result = "saved"
    <3>1. editor' = [editor EXCEPT !.target = save.target, !.revision = save.revision, !.onPage = TRUE,
             !.text = save.text, !.original = save.text, !.persisted = Nothing,
             !.discardDue = FALSE, !.paused = paused, !.conflict = FALSE]
      BY <1>6, <2>2, <2>4 DEF AnswerSave
    <3>2. editor' \in Editors /\ editor'.target = save.target /\ editor'.revision = save.revision
      BY <1>1, <2>1, <3>1 DEF Editors, Requests
    <3> QED BY <1>1, <1>3, <2>1, <2>3, <3>2 DEF Refers
  <2>5. CASE save.result # "saved"
    <3>1. editor' = [editor EXCEPT !.paused = paused, !.conflict = FALSE]
      BY <1>6, <2>2, <2>5 DEF AnswerSave
    <3>2. editor' \in Editors /\ editor'.target = editor.target /\ editor'.revision = editor.revision
      BY <1>1, <3>1 DEF Editors
    <3> QED BY <1>1, <1>3, <2>1, <2>3, <3>2 DEF Refers
  <2> QED BY <2>4, <2>5
<1> QED BY <1>4, <1>5, <1>6

LEMMA DiscardStep ==
  ASSUME Inv, BeginDiscard \/ LoseDiscard \/ ServeDiscard \/ AnswerDiscard
  PROVE  Inv'
<1> USE DEF stored, writer
<1>1. /\ UNCHANGED <<pages, saved, late, inFlight, crowded, call, promotion, save, signedIn>>
      /\ discard \in Requests /\ Refers(discard) /\ editor \in Editors /\ Refers(editor)
  BY DEF BeginDiscard, LoseDiscard, ServeDiscard, AnswerDiscard, Inv, DiscardInv, EditorInv
<1>2. RowInv'
  <2>1. row' = row \/ row' = NoRow
    BY DEF BeginDiscard, LoseDiscard, ServeDiscard, AnswerDiscard
  <2> QED BY <1>1, <2>1, EmptyRow, PagesStay, PartsStay
<1>3. RestInv'
  <2>1. counts' \in [{"texts", "saves", "disturbances"} -> Nat]
    <3>1. CASE LoseDiscard BY <3>1, CountType DEF LoseDiscard, Disturbed
    <3>2. CASE BeginDiscard \/ ServeDiscard \/ AnswerDiscard
      BY <3>2 DEF BeginDiscard, ServeDiscard, AnswerDiscard, Inv, RestInv
    <3> QED BY <3>1, <3>2
  <2>2. stray' \in BOOLEAN BY DEF BeginDiscard, LoseDiscard, ServeDiscard, AnswerDiscard, Inv, RestInv
  <2> QED BY <1>1, <2>1, <2>2 DEF Inv, RestInv
<1>4. ASSUME discard' \in Requests, Refers(discard'), editor' \in Editors, Refers(editor')
      PROVE  Inv'
  <2>1. DiscardInv' /\ EditorInv' BY <1>1, <1>4 DEF DiscardInv, EditorInv, Refers, Exists
  <2> QED BY <1>1, <1>2, <1>3, <2>1, PagesStay, PartsStay DEF Inv
<1>5. ASSUME NEW result \in Results, DiscardAnswer(result)
      PROVE  discard' \in Requests /\ Refers(discard')
  <2>1. /\ discard' \in Requests /\ discard'.target = discard.target /\ discard'.revision = discard.revision
    BY <1>1, <1>5 DEF DiscardAnswer, Requests, Results
  <2> QED BY <1>1, <2>1 DEF Refers
<1>6. CASE BeginDiscard
  <2>1. /\ Prepared(Nothing) \in Requests
        /\ Prepared(Nothing).target = editor.target /\ Prepared(Nothing).revision = editor.revision
    BY PreparedType
  <2>2. discard' = Prepared(Nothing) /\ editor' = [editor EXCEPT !.paused = TRUE, !.discardDue = FALSE]
    BY <1>6 DEF BeginDiscard
  <2>3. /\ editor' \in Editors /\ editor'.target = editor.target /\ editor'.revision = editor.revision
    BY <1>1, <2>2 DEF Editors
  <2> QED BY <1>1, <1>4, <2>1, <2>2, <2>3 DEF Refers
<1>7. CASE LoseDiscard
  <2>1. editor' = editor /\ DiscardAnswer("failed") BY <1>7 DEF LoseDiscard
  <2> QED BY <1>1, <1>4, <1>5, <2>1 DEF Results
<1>8. CASE ServeDiscard
  <2>1. editor' = editor /\ (DiscardAnswer("saved") \/ DiscardAnswer("session_ended"))
    BY <1>8 DEF ServeDiscard
  <2> QED BY <1>1, <1>4, <1>5, <2>1 DEF Results
<1>9. CASE AnswerDiscard
  <2>1. discard' = NoDiscard /\ NoDiscard \in Requests /\ Refers(NoDiscard)
    BY <1>9, Constants DEF AnswerDiscard, NoDiscard, IdleCall, Refers
  <2>2. \/ editor' = editor
        \/ editor' = [editor EXCEPT !.persisted = Nothing, !.candidate = Nothing, !.paused = FALSE, !.conflict = FALSE]
        \/ editor' = [editor EXCEPT !.paused = FALSE, !.conflict = FALSE]
    BY <1>9 DEF AnswerDiscard
  <2>3. /\ editor' \in Editors /\ editor'.target = editor.target /\ editor'.revision = editor.revision
    BY <1>1, <2>2 DEF Editors
  <2> QED BY <1>1, <1>4, <2>1, <2>3 DEF Refers
<1> QED BY <1>6, <1>7, <1>8, <1>9

\* What the end of call c is made of: the calls that waited for it, and those
\* of them that write.
LEMMA FinishParts ==
  ASSUME Inv, NEW c \in Calls, FinishCall(c)
  PROVE  LET k == Ended(call[c])
             after == AfterCall(k, promotion[c])
         IN /\ k.stage = "answered" \/ (k.stage = "promote" /\ promotion[c].stage = "done")
            /\ k.stage = call[c].stage
            /\ editor' = after
            /\ promotion' = [promotion EXCEPT ![c] = NoPromotion]
            /\ UNCHANGED <<pages, row, saved, late, signedIn, counts>>
            /\ stray' = (stray \/ crowded')
            /\ \E waiting, writing \in SUBSET Calls :
                 /\ waiting = {w \in Calls : call[w].stage = "waiting" /\ call[w].on = c}
                 /\ writing = IF after.paused \/ after.conflict \/ k.result = "conflict" \/ after.text = after.persisted
                              THEN {} ELSE waiting
                 /\ call' = [w \in Calls |-> IF w \in writing THEN Put(after)
                                             ELSE IF w = c \/ w \in waiting THEN IdleCall ELSE call[w]]
                 /\ IF writing = {} THEN inFlight' = NoCall ELSE inFlight' \in writing
            /\ crowded' = \E w \in Calls :
                 /\ Working(call'[w])
                 /\ crowded \/ save # NoSave \/ \E v \in Calls \ {w} : Working(call'[v])
            /\ save' = IF save.stage = "waiting" /\ save.on = c
                       THEN [save EXCEPT !.stage = "sent", !.on = NoCall,
                                         !.target = after.target, !.revision = after.revision]
                       ELSE save
            /\ discard' = IF discard.stage = "waiting" /\ discard.on = c
                          THEN [discard EXCEPT !.stage = "sent", !.on = NoCall,
                                               !.target = after.target, !.revision = after.revision]
                          ELSE discard
<1> DEFINE k == Ended(call[c])
           after == AfterCall(k, promotion[c])
           waiting == {w \in Calls : call[w].stage = "waiting" /\ call[w].on = c}
           writing == IF after.paused \/ after.conflict \/ k.result = "conflict" \/ after.text = after.persisted
                      THEN {} ELSE waiting
<1>1. k.stage = call[c].stage BY DEF Ended, Inv, CallsInv, Requests
<1>2. waiting \in SUBSET Calls /\ writing \in SUBSET Calls
  <2> HIDE DEF after, k
  <2> QED OBVIOUS
<1>3. IF writing = {} THEN inFlight' = NoCall ELSE inFlight' \in writing
  <2>1. inFlight' = IF writing = {} THEN NoCall ELSE CHOOSE w \in writing : TRUE
    BY DEF FinishCall
  <2> HIDE DEF writing
  <2> QED BY <2>1
<1>4. call' = [w \in Calls |-> IF w \in writing THEN Put(after)
                               ELSE IF w = c \/ w \in waiting THEN IdleCall ELSE call[w]]
  BY DEF FinishCall
<1>5. \E one, other \in SUBSET Calls :
        /\ one = {w \in Calls : call[w].stage = "waiting" /\ call[w].on = c}
        /\ other = IF after.paused \/ after.conflict \/ k.result = "conflict" \/ after.text = after.persisted
                   THEN {} ELSE one
        /\ call' = [w \in Calls |-> IF w \in other THEN Put(after)
                                    ELSE IF w = c \/ w \in one THEN IdleCall ELSE call[w]]
        /\ IF other = {} THEN inFlight' = NoCall ELSE inFlight' \in other
  <2> WITNESS waiting \in SUBSET Calls, writing \in SUBSET Calls
  <2> HIDE DEF after, k
  <2> QED BY <1>3, <1>4
<1>6. /\ k.stage = "answered" \/ (k.stage = "promote" /\ promotion[c].stage = "done")
      /\ editor' = after
      /\ promotion' = [promotion EXCEPT ![c] = NoPromotion]
      /\ UNCHANGED <<pages, row, saved, late, signedIn, counts>>
      /\ stray' = (stray \/ crowded')
  BY DEF FinishCall
<1>7. /\ save' = IF save.stage = "waiting" /\ save.on = c
                 THEN [save EXCEPT !.stage = "sent", !.on = NoCall,
                                   !.target = after.target, !.revision = after.revision]
                 ELSE save
      /\ discard' = IF discard.stage = "waiting" /\ discard.on = c
                    THEN [discard EXCEPT !.stage = "sent", !.on = NoCall,
                                         !.target = after.target, !.revision = after.revision]
                    ELSE discard
  BY DEF FinishCall
<1>8. crowded' = \E w \in Calls :
        /\ Working(call'[w])
        /\ crowded \/ save # NoSave \/ \E v \in Calls \ {w} : Working(call'[v])
  BY DEF FinishCall
<1> HIDE DEF after, k
<1> QED BY <1>1, <1>5, <1>6, <1>7, <1>8 DEF after, k

LEMMA FinishStep ==
  ASSUME Inv, NEW c \in Calls, FinishCall(c)
  PROVE  Inv'
<1> DEFINE after == AfterCall(Ended(call[c]), promotion[c])
<1>0. after \in Editors /\ Refers(after) BY AfterCallType
<1>1. /\ call[c].stage \in {"answered", "promote"} /\ editor' = after
      /\ promotion' = [promotion EXCEPT ![c] = NoPromotion]
      /\ UNCHANGED <<pages, row, saved, late, signedIn, counts>>
      /\ stray' = (stray \/ crowded')
      /\ crowded' = \E w \in Calls :
           /\ Working(call'[w])
           /\ crowded \/ save # NoSave \/ \E v \in Calls \ {w} : Working(call'[v])
  BY FinishParts
<1>2. PICK waiting \in SUBSET Calls, writing \in SUBSET Calls :
        /\ waiting = {w \in Calls : call[w].stage = "waiting" /\ call[w].on = c}
        /\ writing = IF \/ after.paused \/ after.conflict \/ Ended(call[c]).result = "conflict"
                        \/ after.text = after.persisted
                     THEN {} ELSE waiting
        /\ call' = [w \in Calls |-> IF w \in writing THEN Put(after)
                                    ELSE IF w = c \/ w \in waiting THEN IdleCall ELSE call[w]]
        /\ IF writing = {} THEN inFlight' = NoCall ELSE inFlight' \in writing
  BY FinishParts
<1> HIDE DEF after
<1>2a. writing \subseteq waiting BY <1>2
<1>3. /\ Put(after) \in Requests /\ Refers(Put(after)) /\ Put(after).text \in Drafts
      /\ Put(after).stage = "put"
  BY <1>0, PutType DEF Refers, Editors
<1>4. IdleCall \in Requests /\ Refers(IdleCall) /\ IdleCall.stage = "idle"
  BY Constants DEF IdleCall, Refers
<1>5. CallsInv'
  <2>1. \A w \in Calls : call'[w] \in {Put(after), IdleCall, call[w]} BY <1>2
  <2>2. \A w \in Calls : call'[w] \in Requests /\ Refers(call'[w])
    BY <1>3, <1>4, <2>1 DEF Inv, CallsInv
  <2>3. \A w \in Calls : call'[w].stage \notin {"idle", "waiting"} => call'[w].text \in Drafts
    BY <1>3, <1>4, <2>1 DEF Inv, CallsInv
  <2>4. call' \in [Calls -> Requests] BY <1>2, <2>2
  <2> QED BY <1>1, <2>2, <2>3, <2>4 DEF CallsInv, Refers, Exists
<1>6. PromotionsInv' /\ promotion'[c] = NoPromotion /\ \A r \in Promoters \ {c} : promotion'[r] = promotion[r]
  <2>1. NoPromotion \in Promotions /\ Refers(NoPromotion)' /\ NoPromotion.stage = "none"
    BY Constants DEF NoPromotion, Refers
  <2> QED BY <1>1, <2>1, Constants, PagesStay, PromotionReplaced
<1>7. StagesInv'
  <2>1. \A w \in Calls \ {c} : call[w].stage # "waiting" => call'[w] = call[w]
    BY <1>2, <1>2a
  <2> QED BY <1>6, <2>1, Constants DEF Inv, StagesInv
<1>8. EditorInv' BY <1>0, <1>1 DEF EditorInv, Refers, Exists
<1>9. ASSUME NEW r \in Requests, Refers(r)
      PROVE  LET s == [r EXCEPT !.stage = "sent", !.on = NoCall, !.target = after.target, !.revision = after.revision]
             IN s \in Requests /\ Refers(s) /\ s.text = r.text
  <2> DEFINE s == [r EXCEPT !.stage = "sent", !.on = NoCall, !.target = after.target, !.revision = after.revision]
  <2>1. s \in Requests /\ s.target = after.target /\ s.revision = after.revision /\ s.text = r.text
    BY <1>0, <1>9 DEF Requests, Editors
  <2> QED BY <1>0, <2>1 DEF Refers
<1>10. /\ save' \in {save, [save EXCEPT !.stage = "sent", !.on = NoCall, !.target = after.target, !.revision = after.revision]}
       /\ discard' \in {discard, [discard EXCEPT !.stage = "sent", !.on = NoCall, !.target = after.target, !.revision = after.revision]}
       /\ save = NoSave => save' = NoSave
  <2>1. NoSave.stage = "idle" BY DEF NoSave, IdleCall
  <2> QED BY <2>1, FinishParts DEF after
<1>11. SaveInv' /\ DiscardInv'
  <2>1. save' \in Requests /\ Refers(save') /\ save'.text = save.text
    BY <1>9, <1>10 DEF Inv, SaveInv
  <2>2. discard' \in Requests /\ Refers(discard')
    BY <1>9, <1>10 DEF Inv, DiscardInv
  <2> QED BY <1>1, <1>10, <2>1, <2>2 DEF Inv, SaveInv, DiscardInv, Refers, Exists
<1>12. RestInv'
  <2>1. crowded' \in BOOLEAN
    <3> DEFINE P == \E w \in Calls :
           /\ Working(call'[w])
           /\ crowded \/ save # NoSave \/ \E v \in Calls \ {w} : Working(call'[v])
    <3>1. P \in BOOLEAN OBVIOUS
    <3> QED BY <1>1, <3>1
  <2>2. inFlight' \in Calls \cup {NoCall} BY <1>2
  <2> QED BY <1>1, <2>1, <2>2 DEF Inv, RestInv
<1> QED BY <1>1, <1>5, <1>6, <1>7, <1>8, <1>11, <1>12, PagesStay, PartsStay DEF Inv

\* A request of a closed editor.
LEMMA LateStep ==
  ASSUME Inv, NEW l \in late, ServeLate(l)
  PROVE  Inv'
<1>1. /\ UNCHANGED <<editor, inFlight, call, crowded, promotion, save, discard, signedIn, counts>>
      /\ late' = late \ {l} /\ stray' = TRUE
  BY DEF ServeLate, writer
<1>2. /\ l \in LateRequests /\ l.request \in Requests /\ Refers(l.request)
      /\ l.kind # "discard" => l.request.text \in Drafts
  BY DEF Inv, LateInv, LateRequests
<1>3. PagesInv' /\ Grows /\ RowInv' /\ saved' \in [target : Targets, text : Drafts]
  <2>0. saved \in [target : Targets, text : Drafts] BY DEF Inv, RestInv
  <2>1. ASSUME l.kind = "put", StoreRow(l.request), UNCHANGED <<pages, saved>>
        PROVE  PagesInv' /\ Grows /\ RowInv' /\ saved' \in [target : Targets, text : Drafts]
    BY <1>2, <2>0, <2>1, StoredRow, PagesStay
  <2>2. ASSUME NEW p \in PageIds, l.kind = "save",
               CreateSaved(l.request, p) \/ UpdateSaved(l.request, p)
        PROVE  PagesInv' /\ Grows /\ RowInv' /\ saved' \in [target : Targets, text : Drafts]
    <3>1. /\ PagesInv' /\ Grows /\ RowInv' /\ saved' = [target |-> p, text |-> l.request.text]
      BY <1>2, <2>2, PageSaved
    <3> QED BY <1>2, <2>2, <3>1, Constants
  <2>3. ASSUME row' \in {row, NoRow}, UNCHANGED <<pages, saved>>
        PROVE  PagesInv' /\ Grows /\ RowInv' /\ saved' \in [target : Targets, text : Drafts]
    BY <2>0, <2>3, EmptyRow, PagesStay, PartsStay
  <2> QED BY <2>1, <2>2, <2>3 DEF ServeLate, CreateRefused, WithoutDraft
<1>4. LateInv'
  <2>1. late' \subseteq late BY <1>1
  <2>2. \A x \in late' : x.request.target # NoTarget => x.request.target \in PageIds /\ Exists(x.request.target)
    BY <2>1 DEF Inv, LateInv, LateRequests, Requests, Refers, Targets
  <2> QED BY <1>3, <2>1, <2>2 DEF Inv, LateInv, Refers, Grows
<1>5. RestInv' BY <1>1, <1>3 DEF Inv, RestInv
<1> QED BY <1>1, <1>3, <1>4, <1>5, PartsStay DEF Inv

LEMMA InitInv == Init => Inv
<1> SUFFICES ASSUME Init PROVE Inv
  OBVIOUS
<1> USE Constants, ConstantAssumption
<1>1. /\ PagesInv
      /\ \A p \in PageIds : Exists(p) => pages[p].revision = 1 /\ pages[p].text = Original
  <2> DEFINE none == [p \in PageIds |-> NoPage]
             loaded == [revision |-> 1, text |-> Original, origin |-> "loaded"]
  <2>1. pages = none \/ pages = [none EXCEPT ![1] = loaded]
    BY DEF Init
  <2>2. \A p \in PageIds : pages[p] = NoPage \/ pages[p] = loaded
    BY <2>1
  <2>3. /\ NoPage \in [revision : Nat, text : Drafts, origin : {"none", "loaded", "promotion", "save"}]
        /\ loaded \in [revision : Nat, text : Drafts, origin : {"none", "loaded", "promotion", "save"}]
    BY DEF NoPage
  <2>4. loaded.revision = 1 /\ loaded.text = Original
    OBVIOUS
  <2>5. none \in [PageIds -> {NoPage, loaded}] /\ pages \in [PageIds -> {NoPage, loaded}]
    BY <2>1
  <2> HIDE DEF none, loaded
  <2>6. \A p \in PageIds : pages[p].revision = 0 => pages[p] = NoPage
    BY <2>2, <2>4
  <2> QED BY <2>2, <2>3, <2>4, <2>5, <2>6 DEF Exists, PagesInv
<1>2. row = NoRow /\ RowInv /\ ~HasRow
  BY DEF Init, NoRow, NoTarget, HasRow, RowInv
<1> DEFINE p0 == IF Exists(1) THEN 1 ELSE NoTarget
<1>3. p0 \in Targets /\ (p0 # NoTarget => Exists(p0)) /\ 1 \in PageIds
  BY DEF PageIds, Targets, NoTarget
<1>4. /\ editor = Opened(p0, 0) /\ inFlight = NoCall
      /\ call = [c \in Calls |-> IdleCall] /\ promotion = [p \in Promoters |-> NoPromotion]
      /\ save = NoSave /\ discard = NoDiscard /\ signedIn = TRUE /\ late = {}
      /\ crowded = FALSE /\ stray = FALSE
      /\ saved = [target |-> NoTarget, text |-> Original]
      /\ counts = [k \in {"texts", "saves", "disturbances"} |-> 0]
  BY DEF Init
<1> HIDE DEF p0
<1>5. EditorInv
  <2> DEFINE base == IF p0 = NoTarget THEN Original ELSE pages[p0].text
             revision == IF p0 = NoTarget THEN 0 ELSE pages[p0].revision
  <2>1. base \in Drafts /\ revision \in Nat /\ ((p0 = NoTarget) <=> (revision = 0))
    BY <1>1, <1>3 DEF Targets, PagesInv
  <2> HIDE DEF base, revision
  <2>2. editor = [target |-> p0, revision |-> revision, onPage |-> p0 # NoTarget, text |-> base,
                  original |-> base, persisted |-> Nothing, candidate |-> Nothing,
                  discardDue |-> FALSE, paused |-> FALSE, conflict |-> FALSE, session |-> 0]
    <3>1. (HasRow /\ row.target = p0) = FALSE BY <1>2
    <3> QED BY <1>4, <3>1 DEF Opened, base, revision
  <2>3. editor \in Editors
    BY <1>3, <2>1, <2>2 DEF Editors
  <2>4. editor.target = p0 /\ editor.revision = revision
    BY <2>2
  <2> QED BY <1>3, <2>1, <2>3, <2>4 DEF Refers, EditorInv
<1>6. Refers(IdleCall) /\ Refers(NoPromotion) /\ IdleCall.stage = "idle" /\ NoPromotion.stage = "none"
  BY DEF Refers, IdleCall, NoPromotion
<1>7. CallsInv /\ PromotionsInv /\ StagesInv
  BY <1>4, <1>6 DEF CallsInv, PromotionsInv, StagesInv
<1>8. SaveInv /\ DiscardInv /\ LateInv
  BY <1>4, <1>6 DEF SaveInv, DiscardInv, LateInv, NoSave, NoDiscard
<1>9. RestInv BY <1>4 DEF RestInv
<1> QED BY <1>1, <1>2, <1>5, <1>7, <1>8, <1>9 DEF Inv

LEMMA InvStays == Inv /\ [Next]_vars => Inv'
<1> SUFFICES ASSUME Inv, [Next]_vars PROVE Inv'
  OBVIOUS
<1>1. CASE User
  <2>1. CASE Type \/ Restore \/ EndSession \/ Reauthenticate BY <2>1, UserStep
  <2>2. CASE Reopen BY <2>2, ReopenStep
  <2>3. CASE OtherTabPromotes BY <2>3, ReadStep, Constants
  <2>4. CASE BeginSave BY <2>4, SaveStep
  <2>5. CASE \E p \in PageIds : ChangePage(p) BY <2>5, ChangePageStep
  <2> QED BY <1>1, <2>1, <2>2, <2>3, <2>4, <2>5 DEF User
<1>2. CASE Losses
  <2>1. CASE LoseSave BY <2>1, SaveStep
  <2>2. CASE LoseDiscard BY <2>2, DiscardStep
  <2>3. CASE \E c \in Calls : LosePut(c) BY <2>3, PutStep
  <2>4. CASE \E c \in Calls : LosePromotion(c) BY <2>4, LosePromotionStep
  <2> QED BY <1>2, <2>1, <2>2, <2>3, <2>4 DEF Losses
<1>3. CASE Machine
  <2>1. CASE OpenPromoted BY <2>1, UserStep
  <2>2. CASE \E c \in Calls : StartCall(c) BY <2>2, StartStep
  <2>3. CASE \E c \in Calls : ServePut(c) BY <2>3, PutStep
  <2>4. CASE \E c \in Calls : FinishCall(c) BY <2>4, FinishStep
  <2>5. CASE \E q \in Promoters : ReadPromotion(q) \/ RereadPromotion(q) \/ ForgetPromotion(q)
    BY <2>5, ReadStep
  <2>6. CASE \E q \in Promoters : CreatePromoted(q) BY <2>6, CreatePromotedStep
  <2>7. CASE ServeSave BY <2>7, ServeSaveStep
  <2>8. CASE AnswerSave BY <2>8, SaveStep
  <2>9. CASE BeginDiscard \/ ServeDiscard \/ AnswerDiscard BY <2>9, DiscardStep
  <2> QED BY <1>3, <2>1, <2>2, <2>3, <2>4, <2>5, <2>6, <2>7, <2>8, <2>9 DEF Machine
<1>4. CASE \E l \in late : ServeLate(l) BY <1>4, LateStep
<1>5. CASE UNCHANGED vars
  <2>1. /\ UNCHANGED <<pages, row, late, editor, call, promotion, save, discard>>
        /\ UNCHANGED <<inFlight, crowded, stray, signedIn, saved, counts>>
    BY <1>5 DEF vars, stored, writer
  <2> QED BY <2>1, PagesStay, PartsStay DEF Inv
<1> QED BY <1>1, <1>2, <1>3, <1>4, <1>5 DEF Next

\* The tables, the hook and the requests keep their types, and the row and
\* the editor name only Pages that exist, whatever fails and however many
\* requests overlap.
THEOREM TypeCorrect == Spec => []TypeOK
BY InvIsTypeOK, InitInv, InvStays, PTL DEF Spec

\* Only a promotion makes a Page of that origin.
LEMMA SavedOrigin ==
  ASSUME Inv, NEW k, NEW n \in PageIds, CreateSaved(k, n) \/ UpdateSaved(k, n),
         NEW p \in PageIds, pages[p].origin # "promotion"
  PROVE  pages'[p].origin # "promotion"
<1>1. CASE CreateSaved(k, n)
  BY <1>1 DEF CreateSaved, Inv, PagesInv
<1>2. CASE UpdateSaved(k, n)
  <2>1. PICK r : pages' = [pages EXCEPT ![n].text = k.text, ![n].revision = r]
    BY <1>2 DEF UpdateSaved
  <2> QED BY <2>1 DEF Inv, PagesInv
<1> QED BY <1>1, <1>2

LEMMA PromotionStepIsExclusive ==
  ASSUME Inv, [Next]_vars, NEW p \in PageIds, ~Exists(p), pages'[p].origin = "promotion"
  PROVE  row.target = NoTarget /\ row'.target = p /\ row'.text = pages'[p].text
<1>1. pages[p].origin = "none"
  BY DEF Exists, NoPage
<1>2. pages' # pages
  BY <1>1
<1>3. CASE \E q \in Promoters : CreatePromoted(q)
  <2>1. PICK q \in Promoters : CreatePromoted(q) BY <1>3
  <2>2. PICK n \in PageIds :
          /\ StillUnbound(promotion[q].text)
          /\ pages' = [pages EXCEPT ![n] =
               [revision |-> 1, text |-> promotion[q].text, origin |-> "promotion"]]
          /\ row' = IF row.text = promotion[q].text THEN [row EXCEPT !.target = n, !.base = 1] ELSE row
    BY <2>1, <1>2 DEF CreatePromoted
  <2>3. pages \in [PageIds -> [revision : Nat, text : Drafts,
                               origin : {"none", "loaded", "promotion", "save"}]]
    BY DEF Inv, PagesInv
  <2>4. n = p BY <1>1, <2>2, <2>3
  <2>5. pages'[p].text = promotion[q].text BY <2>2, <2>3, <2>4
  <2>6. row' = [row EXCEPT !.target = n, !.base = 1] /\ row.text = promotion[q].text /\ row.target = NoTarget
    BY <2>2 DEF StillUnbound
  <2>7. row \in [target : Targets, base : Nat, text : Drafts \cup {Nothing}]
    BY DEF Inv, RowInv
  <2> QED BY <2>4, <2>5, <2>6, <2>7
<1>4. CASE \E n \in PageIds : ChangePage(n)
  <2>1. PICK n \in PageIds : pages' = [pages EXCEPT ![n].revision = @ + 1, ![n].text = Foreign]
    BY <1>4 DEF ChangePage
  <2>2. pages'[p].origin = pages[p].origin
    BY <2>1 DEF Inv, PagesInv
  <2> QED BY <1>1, <2>2
<1>5. CASE ServeSave
  <2>1. PICK n \in PageIds : CreateSaved(save, n) \/ UpdateSaved(save, n)
    BY <1>2, <1>5 DEF ServeSave, CreateRefused
  <2> QED BY <1>1, <2>1, SavedOrigin
<1>6. CASE \E l \in late : ServeLate(l)
  <2>1. PICK l \in late, n \in PageIds : CreateSaved(l.request, n) \/ UpdateSaved(l.request, n)
    BY <1>2, <1>6 DEF ServeLate, CreateRefused
  <2> QED BY <1>1, <2>1, SavedOrigin
<1>7. CASE ~(\/ \E q \in Promoters : CreatePromoted(q)
             \/ \E n \in PageIds : ChangePage(n)
             \/ ServeSave
             \/ \E l \in late : ServeLate(l))
  <2>1. pages' = pages
    <3>1. CASE User
      BY <1>7, <3>1 DEF User, Type, Restore, EndSession, Reauthenticate, Reopen, OtherTabPromotes,
         BeginSave, stored
    <3>2. CASE Losses
      BY <3>2 DEF Losses, LoseSave, LoseDiscard, LosePut, LosePromotion, stored
    <3>3. CASE Machine
      BY <1>7, <3>3 DEF Machine, StartCall, ServePut, FinishCall, ReadPromotion,
         RereadPromotion, ForgetPromotion, OpenPromoted, AnswerSave, BeginDiscard, ServeDiscard,
         AnswerDiscard, stored
    <3>4. CASE UNCHANGED vars
      BY <3>4 DEF vars, stored
    <3> QED BY <1>7, <3>1, <3>2, <3>3, <3>4 DEF Next
  <2> QED BY <1>2, <2>1
<1> QED BY <1>3, <1>4, <1>5, <1>6, <1>7

\* However many tabs and calls promote one draft, a Page is made only from
\* the text that is stored for a draft without a Page, and the draft is bound
\* to that Page in the same step, so a second promotion finds it bound.
THEOREM PromotionsAreExclusive == Spec => PromotionIsExclusive
<1>1. Inv /\ [Next]_vars =>
        [\A p \in PageIds :
           ~Exists(p) /\ pages'[p].origin = "promotion" =>
             /\ row.target = NoTarget
             /\ row'.target = p
             /\ row'.text = pages'[p].text]_vars
  BY PromotionStepIsExclusive
<1> QED BY <1>1, InitInv, InvStays, PTL DEF Spec, PromotionIsExclusive

-----------------------------------------------------------------------------
(* Texts are numbered as they are typed: none is newer than the counter.   *)

Fresh(text) == text <= counts.texts

FreshInv ==
  /\ Fresh(editor.text) /\ Fresh(editor.original) /\ Fresh(editor.persisted) /\ Fresh(editor.candidate)
  /\ Fresh(row.text)
  /\ Fresh(saved.text)
  /\ Fresh(save.text)
  /\ \A c \in Calls : Fresh(call[c].text)
  /\ \A p \in PageIds : Fresh(pages[p].text)
  /\ \A q \in Promoters : Fresh(promotion[q].text)
  /\ \A l \in late : l.kind # "discard" => Fresh(l.request.text)

LEMMA Numbers ==
  /\ \A t \in Drafts \cup {Nothing} : t \in Int /\ t >= -2
  /\ Original = 0 /\ Foreign = -1 /\ Nothing = -2
  /\ Inv => counts.texts \in Nat
BY ConstantAssumption DEF Drafts, Texts, Original, Foreign, Nothing, Inv, RestInv

\* A text that was fresh stays so: the counter only goes up.
LEMMA FreshStays ==
  ASSUME Inv, FreshInv, counts'.texts \in {counts.texts, counts.texts + 1}
  PROVE  /\ \A t \in Drafts \cup {Nothing} : Fresh(t) => Fresh(t)'
         /\ Fresh(Nothing)' /\ Fresh(Foreign)' /\ Fresh(Original)'
BY Numbers DEF Fresh

LEMMA CounterGrows ==
  ASSUME Inv, [Next]_vars
  PROVE  counts'.texts \in {counts.texts, counts.texts + 1}
<1>1. ASSUME NEW k \in {"texts", "saves", "disturbances"}, Count(k)
      PROVE  counts'.texts \in {counts.texts, counts.texts + 1}
  BY <1>1 DEF Count, Inv, RestInv
<1>2. (counts' = counts) \/ (\E k \in {"texts", "saves", "disturbances"} : Count(k))
  <2>1. CASE User
    BY <2>1 DEF User, Type, Restore, EndSession, Reauthenticate, Reopen, OtherTabPromotes, BeginSave,
       ChangePage, Disturbed
  <2>2. CASE Losses
    BY <2>2 DEF Losses, LoseSave, LoseDiscard, LosePut, LosePromotion, Disturbed
  <2>3. CASE Machine
    BY <2>3 DEF Machine, StartCall, ServePut, FinishCall, ReadPromotion, CreatePromoted, RereadPromotion,
       ForgetPromotion, OpenPromoted, ServeSave, AnswerSave, BeginDiscard, ServeDiscard, AnswerDiscard
  <2>4. CASE \E l \in late : ServeLate(l) BY <2>4 DEF ServeLate
  <2>5. CASE UNCHANGED vars BY <2>5 DEF vars
  <2> QED BY <2>1, <2>2, <2>3, <2>4, <2>5 DEF Next
<1> QED BY <1>1, <1>2

\* The texts of each variable that a step leaves alone stay fresh.
LEMMA FreshPartsStay ==
  ASSUME Inv, FreshInv, counts'.texts \in {counts.texts, counts.texts + 1}
  PROVE  /\ editor' = editor =>
              (Fresh(editor.text) /\ Fresh(editor.original) /\ Fresh(editor.persisted) /\ Fresh(editor.candidate))'
         /\ row' = row => Fresh(row.text)'
         /\ saved' = saved => Fresh(saved.text)'
         /\ save' = save => Fresh(save.text)'
         /\ call' = call => (\A c \in Calls : Fresh(call[c].text))'
         /\ pages' = pages => (\A p \in PageIds : Fresh(pages[p].text))'
         /\ promotion' = promotion => (\A q \in Promoters : Fresh(promotion[q].text))'
         /\ late' = late => (\A l \in late : l.kind # "discard" => Fresh(l.request.text))'
<1>1. \A t \in Drafts \cup {Nothing} : Fresh(t) => Fresh(t)' BY FreshStays
<1>2. /\ editor.text \in Drafts /\ editor.original \in Drafts
      /\ editor.persisted \in Drafts \cup {Nothing} /\ editor.candidate \in Drafts \cup {Nothing}
      /\ row.text \in Drafts \cup {Nothing} /\ saved.text \in Drafts
      /\ save.text \in Drafts \cup {Nothing}
  BY DEF Inv, EditorInv, Editors, RowInv, RestInv, SaveInv, Requests
<1>3. /\ \A c \in Calls : call[c].text \in Drafts \cup {Nothing}
      /\ \A p \in PageIds : pages[p].text \in Drafts
      /\ \A q \in Promoters : promotion[q].text \in Drafts \cup {Nothing}
      /\ \A l \in late : l.request.text \in Drafts \cup {Nothing}
  BY DEF Inv, CallsInv, Requests, PagesInv, PromotionsInv, Promotions, LateInv, LateRequests
<1> HIDE DEF Fresh
<1> QED BY <1>1, <1>2, <1>3 DEF FreshInv, Fresh

\* The fields of an editor that has just been opened.
LEMMA OpenedFields ==
  ASSUME Inv, NEW p \in Targets, NEW session \in Nat, NEW e, e = Opened(p, session)
  PROVE  /\ e.target = p /\ e.text = e.original /\ ~e.conflict
         /\ e.original = IF p = NoTarget THEN Original ELSE pages[p].text
         /\ e.revision = IF p = NoTarget THEN 0 ELSE pages[p].revision
         /\ e.persisted \in {Nothing, row.text} /\ e.candidate \in {Nothing, row.text}
         /\ e.candidate # Nothing =>
              HasRow /\ row.target = p /\ e.candidate = row.text /\ e.persisted = row.text
BY DEF Opened

LEMMA EndedFields ==
  ASSUME Inv, NEW c \in Calls
  PROVE  LET k == Ended(call[c])
         IN /\ k.stage = call[c].stage /\ k.text = call[c].text
            /\ k.target = call[c].target /\ k.revision = call[c].revision /\ k.session = call[c].session
            /\ call[c].stage # "promote" => k.result = call[c].result
            /\ call[c].stage = "promote" => k.result = "saved"
BY DEF Ended, Inv, CallsInv, Requests

\* The hook after the answer of a call, field by field.
LEMMA AfterCallFields ==
  ASSUME Inv, NEW c \in Calls
  PROVE  LET k == Ended(call[c])
             a == promotion[c]
             after == AfterCall(k, a)
         IN /\ after \in Editors /\ Refers(after)
            /\ after.text = editor.text /\ after.original = editor.original
            /\ after.candidate = editor.candidate /\ after.onPage = editor.onPage
            /\ after.persisted = IF k.result = "saved" THEN call[c].text ELSE editor.persisted
            /\ after.conflict = (editor.conflict \/ (k.result = "conflict" /\ Active))
            /\ \/ after.target = editor.target /\ after.revision = editor.revision
               \/ a.target # NoTarget /\ after.target = a.target /\ after.revision = a.revision
<1> DEFINE k == Ended(call[c])
           e == Remembered(promotion[c])
           persisted == IF k.result = "saved" THEN Persisted(k) ELSE e.persisted
           discardDue == e.discardDue \/ k.result = "saved"
           conflict == e.conflict \/ (k.result = "conflict" /\ Active)
           paused == e.paused \/ (k.result = "session_ended" /\ k.session = editor.session)
<1>0. editor \in Editors BY DEF Inv, EditorInv
<1>1. /\ e \in Editors /\ e.text = editor.text /\ e.original = editor.original /\ e.conflict = editor.conflict
      /\ e.candidate = editor.candidate /\ e.persisted = editor.persisted /\ e.onPage = editor.onPage
      /\ \/ e.target = editor.target /\ e.revision = editor.revision
         \/ promotion[c].target # NoTarget /\ e.target = promotion[c].target /\ e.revision = promotion[c].revision
  <2>1. CASE promotion[c].target # NoTarget /\ ~editor.onPage
    <3>1. e = [editor EXCEPT !.target = promotion[c].target, !.revision = promotion[c].revision]
      BY <2>1 DEF Remembered
    <3>2. e \in Editors BY RememberedType, Constants DEF Inv, PromotionsInv
    <3> HIDE DEF e
    <3> QED BY <1>0, <2>1, <3>1, <3>2 DEF Editors
  <2>2. CASE ~(promotion[c].target # NoTarget /\ ~editor.onPage)
    <3>1. e = editor BY <2>2 DEF Remembered
    <3> QED BY <1>0, <3>1
  <2> QED BY <2>1, <2>2
<1>2. AfterCall(k, promotion[c]) = [e EXCEPT !.persisted = persisted, !.discardDue = discardDue,
                                             !.conflict = conflict, !.paused = paused]
  BY DEF AfterCall
<1>3. persisted = IF k.result = "saved" THEN call[c].text ELSE editor.persisted
  BY <1>1, EndedFields DEF Persisted
<1>4. conflict = (editor.conflict \/ (k.result = "conflict" /\ Active))
  BY <1>1
<1> HIDE DEF e, k, persisted, discardDue, conflict, paused
<1>5. LET after == AfterCall(k, promotion[c])
      IN /\ after.text = e.text /\ after.original = e.original /\ after.candidate = e.candidate
         /\ after.onPage = e.onPage /\ after.persisted = persisted /\ after.conflict = conflict
         /\ after.target = e.target /\ after.revision = e.revision
  BY <1>1, <1>2 DEF Editors
<1>6. AfterCall(k, promotion[c]) \in Editors /\ Refers(AfterCall(k, promotion[c]))
  BY AfterCallType DEF k
<1>7. LET after == AfterCall(k, promotion[c])
      IN /\ after \in Editors /\ Refers(after)
         /\ after.text = editor.text /\ after.original = editor.original
         /\ after.candidate = editor.candidate /\ after.onPage = editor.onPage
         /\ after.persisted = IF k.result = "saved" THEN call[c].text ELSE editor.persisted
         /\ after.conflict = (editor.conflict \/ (k.result = "conflict" /\ Active))
         /\ \/ after.target = editor.target /\ after.revision = editor.revision
            \/ promotion[c].target # NoTarget /\ after.target = promotion[c].target /\ after.revision = promotion[c].revision
  BY <1>1, <1>3, <1>4, <1>5, <1>6
<1> QED BY <1>7 DEF k

\* Every text there is, against the counter after the step.
LEMMA FreshFacts ==
  ASSUME Inv, FreshInv, counts'.texts \in {counts.texts, counts.texts + 1}
  PROVE  /\ Nothing <= counts'.texts /\ Foreign <= counts'.texts /\ Original <= counts'.texts
         /\ editor.text <= counts'.texts /\ editor.original <= counts'.texts
         /\ editor.persisted <= counts'.texts /\ editor.candidate <= counts'.texts
         /\ row.text <= counts'.texts /\ saved.text <= counts'.texts /\ save.text <= counts'.texts
         /\ \A c \in Calls : call[c].text <= counts'.texts
         /\ \A p \in PageIds : pages[p].text <= counts'.texts
         /\ \A q \in Promoters : promotion[q].text <= counts'.texts
         /\ \A l \in late : l.kind # "discard" => l.request.text <= counts'.texts
<1>1. \A t \in Drafts \cup {Nothing} : Fresh(t) => t <= counts'.texts
  BY FreshStays DEF Fresh
<1>2. /\ editor.text \in Drafts /\ editor.original \in Drafts
      /\ editor.persisted \in Drafts \cup {Nothing} /\ editor.candidate \in Drafts \cup {Nothing}
      /\ row.text \in Drafts \cup {Nothing} /\ saved.text \in Drafts
      /\ save.text \in Drafts \cup {Nothing}
  BY DEF Inv, EditorInv, Editors, RowInv, RestInv, SaveInv, Requests
<1>3. /\ \A c \in Calls : call[c].text \in Drafts \cup {Nothing}
      /\ \A p \in PageIds : pages[p].text \in Drafts
      /\ \A q \in Promoters : promotion[q].text \in Drafts \cup {Nothing}
      /\ \A l \in late : l.request.text \in Drafts \cup {Nothing}
  BY DEF Inv, CallsInv, Requests, PagesInv, PromotionsInv, Promotions, LateInv, LateRequests
<1>4. Nothing <= counts'.texts /\ Foreign <= counts'.texts /\ Original <= counts'.texts
  BY FreshStays DEF Fresh
<1> HIDE DEF Fresh
<1> QED BY <1>1, <1>2, <1>3, <1>4 DEF FreshInv

LEMMA FreshUser ==
  ASSUME Inv, FreshInv, counts'.texts \in {counts.texts, counts.texts + 1},
         \/ Type \/ Restore \/ EndSession \/ Reauthenticate \/ OpenPromoted \/ Reopen
         \/ \E p \in PageIds : ChangePage(p)
  PROVE  FreshInv'
<1> USE FreshFacts, FreshPartsStay
<1>0. editor \in Editors BY DEF Inv, EditorInv
<1>1. ASSUME editor'.text <= counts'.texts, editor'.original <= counts'.texts,
             editor'.persisted <= counts'.texts, editor'.candidate <= counts'.texts,
             UNCHANGED <<pages, row, saved, late, call, promotion, save>>
      PROVE  FreshInv'
  BY <1>1 DEF FreshInv, Fresh
<1>2. CASE Type
  <2>1. counts'.texts = counts.texts + 1 BY <1>2 DEF Type, Count, Inv, RestInv
  <2>2. editor' = [editor EXCEPT !.text = counts'.texts] BY <1>2, <2>1 DEF Type
  <2>3. counts'.texts \in Int BY <2>1, Numbers
  <2> QED BY <1>0, <1>1, <1>2, <2>2, <2>3 DEF Type, Editors, stored, writer
<1>3. CASE Restore
  BY <1>0, <1>1, <1>3 DEF Restore, Editors, stored, writer
<1>4. CASE EndSession \/ Reauthenticate
  BY <1>0, <1>1, <1>4 DEF EndSession, Reauthenticate, Editors, stored, writer
<1>5. ASSUME NEW p \in Targets, NEW e, e = Opened(p, editor.session)
      PROVE  /\ e.text <= counts'.texts /\ e.original <= counts'.texts
             /\ e.persisted <= counts'.texts /\ e.candidate <= counts'.texts
  <2>1. editor.session \in Nat BY <1>0 DEF Editors
  <2>2. p = NoTarget \/ p \in PageIds BY DEF Targets
  <2> QED BY <1>5, <2>1, <2>2, OpenedFields
<1>6. CASE OpenPromoted
  <2>1. editor.target \in Targets BY <1>0 DEF Editors
  <2> QED BY <1>1, <1>5, <1>6, <2>1 DEF OpenPromoted, stored, writer
<1>7. CASE Reopen
  <2>1. PICK p \in Targets : editor' = Opened(p, editor.session)
    BY <1>0, <1>7, Constants DEF Reopen, Editors, Inv, RowInv
  <2>2. \A l \in late' : l.kind # "discard" => l.request.text <= counts'.texts
    <3>1. \A l \in OnTheirWay : (\E c \in Calls : l.request = call[c]) \/ l.request = save \/ l.kind = "discard"
      BY OnTheirWayType
    <3>2. \A l \in OnTheirWay : l.kind # "discard" => l.request.text <= counts'.texts
      BY <3>1
    <3>3. late' = late \cup OnTheirWay BY <1>7 DEF Reopen
    <3> QED BY <3>2, <3>3
  <2>3. IdleCall.text = Nothing /\ NoSave.text = Nothing BY DEF IdleCall, NoSave
  <2>4. \A c \in Calls : call'[c].text <= counts'.texts BY <1>7, <2>3 DEF Reopen
  <2>5. /\ UNCHANGED <<pages, row, saved, promotion>> /\ save' = NoSave BY <1>7 DEF Reopen
  <2> QED BY <1>5, <2>1, <2>2, <2>3, <2>4, <2>5 DEF FreshInv, Fresh
<1>8. CASE \E p \in PageIds : ChangePage(p)
  <2>1. PICK p \in PageIds : ChangePage(p) BY <1>8
  <2>2. \A x \in PageIds : pages'[x].text \in {pages[x].text, Foreign}
    BY <2>1 DEF ChangePage, Inv, PagesInv
  <2>3. UNCHANGED <<editor, row, saved, late, call, promotion, save>> BY <2>1 DEF ChangePage, writer
  <2> QED BY <2>2, <2>3 DEF FreshInv, Fresh
<1> QED BY <1>2, <1>3, <1>4, <1>6, <1>7, <1>8

LEMMA FreshCalls ==
  ASSUME Inv, FreshInv, counts'.texts \in {counts.texts, counts.texts + 1}, NEW c \in Calls,
         StartCall(c) \/ ServePut(c) \/ LosePut(c) \/ FinishCall(c) \/ LosePromotion(c)
  PROVE  FreshInv'
<1> USE FreshFacts, FreshPartsStay
<1>0. editor \in Editors /\ call \in [Calls -> Requests] /\ promotion \in [Promoters -> Promotions] /\ c \in Promoters
  BY Constants DEF Inv, EditorInv, CallsInv, PromotionsInv
<1>1. IdleCall.text = Nothing /\ NoPromotion.text = Nothing BY DEF IdleCall, NoPromotion
<1>2. CASE StartCall(c)
  <2>1. \A d \in Calls : call'[d].text \in {call[d].text, editor.text, Nothing}
    <3>1. [IdleCall EXCEPT !.stage = "waiting", !.on = inFlight].text = Nothing
      BY DEF IdleCall
    <3>2. Put(editor).text = editor.text BY <1>0, PutType
    <3> QED BY <1>0, <1>2, <3>1, <3>2 DEF StartCall
  <2>2. UNCHANGED <<pages, row, saved, late, editor, promotion, save>>
    BY <1>2 DEF StartCall, stored
  <2> QED BY <2>1, <2>2 DEF FreshInv, Fresh
<1>3. CASE ServePut(c) \/ LosePut(c)
  <2>1. UNCHANGED <<pages, saved, late, editor, save>> BY <1>3 DEF ServePut, LosePut
  <2>2. row'.text \in {row.text, call[c].text}
    BY <1>3 DEF ServePut, LosePut, StoreRow
  <2>3. \A d \in Calls : call'[d].text = call[d].text
    <3>1. ASSUME NEW result, Answer(c, result) PROVE \A d \in Calls : call'[d].text = call[d].text
      BY <1>0, <3>1 DEF Answer, Requests
    <3>2. ASSUME call' = [call EXCEPT ![c].stage = "promote"] PROVE \A d \in Calls : call'[d].text = call[d].text
      BY <1>0, <3>2 DEF Requests
    <3> QED BY <1>3, <3>1, <3>2 DEF ServePut, LosePut
  <2>4. \A q \in Promoters : promotion'[q].text = promotion[q].text
    <3>1. promotion' = promotion \/ promotion' = [promotion EXCEPT ![c].stage = "sent"]
      BY <1>3 DEF ServePut, LosePut
    <3> QED BY <1>0, <3>1 DEF Promotions
  <2> QED BY <2>1, <2>2, <2>3, <2>4 DEF FreshInv, Fresh
<1>4. CASE LosePromotion(c)
  <2>1. UNCHANGED <<pages, row, saved, late, editor, save>> BY <1>4 DEF LosePromotion, stored
  <2>2. \A d \in Calls : call'[d].text = call[d].text
    BY <1>0, <1>4 DEF LosePromotion, Answer, Requests
  <2>3. \A q \in Promoters : promotion'[q].text \in {promotion[q].text, Nothing}
    BY <1>0, <1>1, <1>4 DEF LosePromotion
  <2> QED BY <2>1, <2>2, <2>3 DEF FreshInv, Fresh
<1>5. CASE FinishCall(c)
  <2> DEFINE after == AfterCall(Ended(call[c]), promotion[c])
  <2>1. /\ after \in Editors /\ after.text = editor.text /\ after.original = editor.original
        /\ after.candidate = editor.candidate /\ after.persisted \in {editor.persisted, call[c].text}
    BY AfterCallFields
  <2>2. editor' = after /\ promotion' = [promotion EXCEPT ![c] = NoPromotion]
        /\ UNCHANGED <<pages, row, saved, late>>
    BY <1>5, FinishParts
  <2>3. PICK waiting \in SUBSET Calls, writing \in SUBSET Calls :
          /\ waiting = {w \in Calls : call[w].stage = "waiting" /\ call[w].on = c}
          /\ writing = IF \/ after.paused \/ after.conflict \/ Ended(call[c]).result = "conflict"
                          \/ after.text = after.persisted
                       THEN {} ELSE waiting
          /\ call' = [w \in Calls |-> IF w \in writing THEN Put(after)
                                      ELSE IF w = c \/ w \in waiting THEN IdleCall ELSE call[w]]
          /\ IF writing = {} THEN inFlight' = NoCall ELSE inFlight' \in writing
    BY <1>5, FinishParts
  <2>4. save'.text = save.text
    <3>1. save \in Requests BY DEF Inv, SaveInv
    <3>2. save' \in {save, [save EXCEPT !.stage = "sent", !.on = NoCall, !.target = after.target, !.revision = after.revision]}
      BY <1>5, FinishParts
    <3> HIDE DEF after
    <3> QED BY <3>1, <3>2 DEF Requests
  <2> HIDE DEF after
  <2>5. Put(after).text = after.text BY <2>1, PutType
  <2>6. \A d \in Calls : call'[d].text \in {call[d].text, editor.text, Nothing}
    BY <1>1, <2>1, <2>3, <2>5
  <2>7. \A q \in Promoters : promotion'[q].text \in {promotion[q].text, Nothing}
    BY <1>0, <1>1, <2>2
  <2> QED BY <2>1, <2>2, <2>4, <2>6, <2>7 DEF FreshInv, Fresh
<1> QED BY <1>2, <1>3, <1>4, <1>5

LEMMA FreshPromotions ==
  ASSUME Inv, FreshInv, counts'.texts \in {counts.texts, counts.texts + 1}, NEW q \in Promoters,
         \/ ReadPromotion(q) \/ RereadPromotion(q) \/ CreatePromoted(q) \/ ForgetPromotion(q)
         \/ OtherTabPromotes
  PROVE  FreshInv'
<1> USE FreshFacts, FreshPartsStay
<1>0. promotion \in [Promoters -> Promotions] BY DEF Inv, PromotionsInv
<1>1. NoPromotion.text = Nothing BY DEF NoPromotion
<1>2. UNCHANGED <<saved, late, editor, call, save>>
  BY DEF ReadPromotion, RereadPromotion, CreatePromoted, ForgetPromotion, OtherTabPromotes, stored, writer
<1>3. \A r \in Promoters : promotion'[r].text \in {promotion[r].text, row.text, Nothing}
  <2>1. ASSUME NEW p, NEW revision, PromotionAnswer(q, p, revision)
        PROVE  \A r \in Promoters : promotion'[r].text \in {promotion[r].text, Nothing}
    BY <1>0, <2>1 DEF PromotionAnswer, NoPromotion
  <2>2. ASSUME AnswerBound(q) PROVE \A r \in Promoters : promotion'[r].text \in {promotion[r].text, Nothing}
    BY <2>1, <2>2 DEF AnswerBound
  <2>3. CASE \/ promotion' = [promotion EXCEPT ![q] = [promotion[q] EXCEPT !.stage = "read", !.text = row.text]]
             \/ promotion' = [promotion EXCEPT ![q].stage = "reread"]
             \/ promotion' = [promotion EXCEPT ![q] = NoPromotion]
             \/ promotion' = [promotion EXCEPT ![OtherTab].stage = "sent"]
    <3>1. CASE promotion' = [promotion EXCEPT ![q] = [promotion[q] EXCEPT !.stage = "read", !.text = row.text]]
      BY <1>0, <3>1 DEF Promotions
    <3>2. CASE promotion' = [promotion EXCEPT ![q].stage = "reread"]
      BY <1>0, <3>2 DEF Promotions
    <3>3. CASE promotion' = [promotion EXCEPT ![q] = NoPromotion]
      BY <1>0, <1>1, <3>3
    <3>4. CASE promotion' = [promotion EXCEPT ![OtherTab].stage = "sent"]
      BY <1>0, <3>4, Constants DEF Promotions
    <3> QED BY <2>3, <3>1, <3>2, <3>3, <3>4
  <2>4. CASE ReadPromotion(q) \/ RereadPromotion(q)
    BY <2>2, <2>3, <2>4 DEF ReadPromotion, RereadPromotion
  <2>5. CASE CreatePromoted(q)
    BY <2>1, <2>3, <2>5 DEF CreatePromoted
  <2>6. CASE ForgetPromotion(q) \/ OtherTabPromotes
    BY <2>3, <2>6 DEF ForgetPromotion, OtherTabPromotes
  <2> QED BY <2>4, <2>5, <2>6
<1>4. row'.text = row.text
  BY DEF ReadPromotion, RereadPromotion, CreatePromoted, ForgetPromotion, OtherTabPromotes, stored, Inv, RowInv
<1>5. \A p \in PageIds : pages'[p].text \in {pages[p].text, promotion[q].text}
  <2>1. CASE pages' = pages BY <2>1
  <2>2. CASE \E n \in PageIds : pages' = [pages EXCEPT ![n] =
                  [revision |-> 1, text |-> promotion[q].text, origin |-> "promotion"]]
    BY <2>2 DEF Inv, PagesInv
  <2> QED BY <2>1, <2>2
    DEF ReadPromotion, RereadPromotion, CreatePromoted, ForgetPromotion, OtherTabPromotes, stored
<1> QED BY <1>2, <1>3, <1>4, <1>5 DEF FreshInv, Fresh

LEMMA FreshSaves ==
  ASSUME Inv, FreshInv, counts'.texts \in {counts.texts, counts.texts + 1},
         \/ BeginSave \/ ServeSave \/ LoseSave \/ AnswerSave
         \/ BeginDiscard \/ ServeDiscard \/ LoseDiscard \/ AnswerDiscard
         \/ \E l \in late : ServeLate(l)
  PROVE  FreshInv'
<1> USE FreshFacts, FreshPartsStay
<1>0. editor \in Editors /\ save \in Requests /\ NoSave.text = Nothing /\ NoRow.text = Nothing
  BY DEF Inv, EditorInv, SaveInv, NoSave, IdleCall, NoRow
<1>1. ASSUME NEW k, NEW p \in PageIds, CreateSaved(k, p) \/ UpdateSaved(k, p)
      PROVE  /\ saved'.text = k.text /\ row'.text \in {row.text, Nothing}
             /\ \A x \in PageIds : pages'[x].text \in {pages[x].text, k.text}
  BY <1>0, <1>1 DEF CreateSaved, UpdateSaved, WithoutDraft, WithoutRow, Inv, PagesInv
<1>2. CASE BeginSave
  <2>1. save'.text = editor.text BY <1>0, <1>2, PreparedType DEF BeginSave, Editors
  <2>2. UNCHANGED <<pages, row, saved, late, call, promotion>> BY <1>2 DEF BeginSave, stored, writer
  <2>3. /\ editor'.text = editor.text /\ editor'.original = editor.original
        /\ editor'.persisted = editor.persisted /\ editor'.candidate = editor.candidate
    BY <1>0, <1>2 DEF BeginSave, Editors
  <2> QED BY <2>1, <2>2, <2>3 DEF FreshInv, Fresh
<1>3. CASE ServeSave
  <2>1. save'.text = save.text BY <1>0, <1>3 DEF ServeSave, SaveAnswer, Requests
  <2>2. UNCHANGED <<late, editor, call, promotion>> BY <1>3 DEF ServeSave, writer
  <2>3. /\ saved'.text \in {saved.text, save.text} /\ row'.text \in {row.text, Nothing}
        /\ \A x \in PageIds : pages'[x].text \in {pages[x].text, save.text}
    BY <1>0, <1>1, <1>3 DEF ServeSave, CreateRefused, WithoutDraft
  <2> QED BY <2>1, <2>2, <2>3 DEF FreshInv, Fresh
<1>4. CASE LoseSave
  <2>1. save'.text = save.text BY <1>0, <1>4 DEF LoseSave, SaveAnswer, Requests
  <2> QED BY <1>4, <2>1 DEF LoseSave, stored, writer, FreshInv, Fresh
<1>5. CASE AnswerSave
  <2>1. UNCHANGED <<pages, row, saved, late, call, promotion>> /\ save' = NoSave
    BY <1>5 DEF AnswerSave, writer
  <2>2. /\ editor'.text \in {editor.text, save.text} /\ editor'.original \in {editor.original, save.text}
        /\ editor'.persisted \in {editor.persisted, Nothing} /\ editor'.candidate = editor.candidate
    BY <1>0, <1>5 DEF AnswerSave, Editors
  <2> QED BY <1>0, <2>1, <2>2 DEF FreshInv, Fresh
<1>6. CASE BeginDiscard \/ ServeDiscard \/ LoseDiscard \/ AnswerDiscard
  <2>1. UNCHANGED <<pages, saved, late, call, promotion, save>>
    BY <1>6 DEF BeginDiscard, ServeDiscard, LoseDiscard, AnswerDiscard, stored, writer
  <2>2. row'.text \in {row.text, Nothing}
    BY <1>0, <1>6 DEF BeginDiscard, ServeDiscard, LoseDiscard, AnswerDiscard, stored
  <2>3. /\ editor'.text = editor.text /\ editor'.original = editor.original
        /\ editor'.persisted \in {editor.persisted, Nothing} /\ editor'.candidate \in {editor.candidate, Nothing}
    BY <1>0, <1>6 DEF BeginDiscard, ServeDiscard, LoseDiscard, AnswerDiscard, Editors
  <2> QED BY <2>1, <2>2, <2>3 DEF FreshInv, Fresh
<1>7. CASE \E l \in late : ServeLate(l)
  <2>1. PICK l \in late : ServeLate(l) BY <1>7
  <2>2. UNCHANGED <<editor, call, promotion, save>> /\ late' \subseteq late BY <2>1 DEF ServeLate, writer
  <2>3. /\ saved'.text \in {saved.text, l.request.text} /\ row'.text \in {row.text, Nothing, l.request.text}
        /\ \A x \in PageIds : pages'[x].text \in {pages[x].text, l.request.text}
        /\ \/ l.kind # "discard"
           \/ UNCHANGED <<pages, saved>> /\ row'.text = Nothing
    BY <1>0, <1>1, <2>1 DEF ServeLate, CreateRefused, WithoutDraft, StoreRow
  <2> QED BY <2>2, <2>3 DEF FreshInv, Fresh
<1> QED BY <1>2, <1>3, <1>4, <1>5, <1>6, <1>7

LEMMA FreshInvStays ==
  ASSUME Inv, FreshInv, [Next]_vars
  PROVE  FreshInv'
<1>1. counts'.texts \in {counts.texts, counts.texts + 1} BY CounterGrows
<1>2. CASE User
  BY <1>1, <1>2, FreshUser, FreshPromotions, FreshSaves, Constants DEF User
<1>3. CASE Losses BY <1>1, <1>3, FreshCalls, FreshSaves DEF Losses
<1>4. CASE Machine BY <1>1, <1>4, FreshCalls, FreshPromotions, FreshUser, FreshSaves DEF Machine
<1>5. CASE \E l \in late : ServeLate(l) BY <1>1, <1>5, FreshSaves
<1>6. CASE UNCHANGED vars
  BY <1>1, <1>6, FreshPartsStay DEF vars, stored, writer, FreshInv
<1> QED BY <1>2, <1>3, <1>4, <1>5, <1>6 DEF Next

-----------------------------------------------------------------------------
(* Revisions only grow, and no revision that is remembered is ahead of its *)
(* Page.                                                                   *)

Current(k) == k.target # NoTarget => k.revision <= pages[k.target].revision

RevisionInv ==
  /\ Current(editor) /\ Current(save)
  /\ \A q \in Promoters : Current(promotion[q])
  /\ saved.target # NoTarget => Exists(saved.target)

RevisionsGrow == \A p \in PageIds : pages[p].revision \in Nat /\ pages[p].revision <= pages'[p].revision

LEMMA SavedRevisions ==
  ASSUME Inv, NEW k \in Requests, NEW n \in PageIds, CreateSaved(k, n) \/ UpdateSaved(k, n)
  PROVE  RevisionsGrow /\ saved'.target = n
<1>1. CASE CreateSaved(k, n)
  BY <1>1 DEF CreateSaved, NewPage, Exists, NoPage, RevisionsGrow, Inv, PagesInv
<1>2. CASE UpdateSaved(k, n)
  <2>1. PICK r \in {pages[n].revision, pages[n].revision + 1} :
          pages' = [pages EXCEPT ![n].text = k.text, ![n].revision = r]
    BY <1>2 DEF UpdateSaved
  <2> QED BY <1>2, <2>1 DEF UpdateSaved, RevisionsGrow, Inv, PagesInv
<1> QED BY <1>1, <1>2

LEMMA RevisionsNeverDrop ==
  ASSUME Inv, [Next]_vars
  PROVE  RevisionsGrow
<1>0. ASSUME pages' = pages PROVE RevisionsGrow BY <1>0 DEF RevisionsGrow, Inv, PagesInv
<1>1. CASE \E q \in Promoters : CreatePromoted(q)
  <2>1. PICK q \in Promoters : CreatePromoted(q) BY <1>1
  <2>2. CASE \E p \in PageIds :
               /\ NewPage(p)
               /\ pages' = [pages EXCEPT ![p] =
                    [revision |-> 1, text |-> promotion[q].text, origin |-> "promotion"]]
    BY <2>2 DEF NewPage, Exists, NoPage, RevisionsGrow, Inv, PagesInv
  <2> QED BY <1>0, <2>1, <2>2 DEF CreatePromoted
<1>2. CASE \E n \in PageIds : ChangePage(n)
  BY <1>2 DEF ChangePage, RevisionsGrow, Inv, PagesInv
<1>3. CASE ServeSave
  <2>1. pages' = pages \/ \E n \in PageIds : CreateSaved(save, n) \/ UpdateSaved(save, n)
    BY <1>3 DEF ServeSave, CreateRefused
  <2> QED BY <1>0, <2>1, SavedRevisions DEF Inv, SaveInv
<1>4. CASE \E l \in late : ServeLate(l)
  <2>1. PICK l \in late : ServeLate(l) BY <1>4
  <2>2. pages' = pages \/ \E n \in PageIds : CreateSaved(l.request, n) \/ UpdateSaved(l.request, n)
    BY <2>1 DEF ServeLate, CreateRefused
  <2>3. l.request \in Requests BY DEF Inv, LateInv, LateRequests
  <2> QED BY <1>0, <2>2, <2>3, SavedRevisions
<1>5. CASE ~(\/ \E q \in Promoters : CreatePromoted(q)
             \/ \E n \in PageIds : ChangePage(n)
             \/ ServeSave
             \/ \E l \in late : ServeLate(l))
  <2>1. CASE User
    BY <1>0, <1>5, <2>1 DEF User, Type, Restore, EndSession, Reauthenticate, Reopen, OtherTabPromotes,
       BeginSave, stored
  <2>2. CASE Losses
    BY <1>0, <2>2 DEF Losses, LoseSave, LoseDiscard, LosePut, LosePromotion, stored
  <2>3. CASE Machine
    BY <1>0, <1>5, <2>3 DEF Machine, StartCall, ServePut, FinishCall, ReadPromotion,
       RereadPromotion, ForgetPromotion, OpenPromoted, AnswerSave, BeginDiscard, ServeDiscard,
       AnswerDiscard, stored
  <2>4. CASE UNCHANGED vars
    BY <1>0, <2>4 DEF vars, stored
  <2> QED BY <1>5, <2>1, <2>2, <2>3, <2>4 DEF Next
<1> QED BY <1>1, <1>2, <1>3, <1>4, <1>5

\* A reference that was not ahead of its Page stays so, and so does a copy.
LEMMA CurrentStays ==
  ASSUME Inv, Inv', RevisionsGrow, NEW k, k.revision \in Nat, k.target \in Targets, Current(k),
         NEW j, j.target = k.target, j.revision = k.revision
  PROVE  j.target # NoTarget => j.revision <= pages'[j.target].revision
<1>1. k.target # NoTarget => k.target \in PageIds BY DEF Targets
<1>2. \A p \in PageIds : pages'[p].revision \in Nat BY DEF Inv, PagesInv
<1> QED BY <1>1, <1>2 DEF RevisionsGrow, Current

\* What a step does to the revisions that the editor and the Save remember.
RevisionsKept ==
  /\ \/ editor'.target = editor.target /\ editor'.revision = editor.revision
     \/ editor'.target # NoTarget => editor'.revision <= pages'[editor'.target].revision
  /\ \/ save'.target = save.target /\ save'.revision = save.revision
     \/ save'.target = editor.target /\ save'.revision = editor.revision
     \/ save'.target # NoTarget => save'.revision <= pages'[save'.target].revision

LEMMA EditorRevisions ==
  ASSUME Inv, Inv', RevisionInv, RevisionsGrow,
         \/ User \/ Losses \/ OpenPromoted
         \/ ServeSave \/ AnswerSave \/ BeginDiscard \/ ServeDiscard \/ AnswerDiscard
         \/ \E c \in Calls : StartCall(c) \/ ServePut(c)
         \/ \E q \in Promoters : ReadPromotion(q) \/ CreatePromoted(q) \/ RereadPromotion(q) \/ ForgetPromotion(q)
         \/ \E l \in late : ServeLate(l)
         \/ UNCHANGED vars
  PROVE  RevisionsKept
<1>0. /\ editor \in Editors /\ save \in Requests /\ NoSave.target = NoTarget
      /\ \A p \in PageIds : pages[p].revision \in Nat /\ pages'[p].revision \in Nat
  BY DEF Inv, EditorInv, SaveInv, PagesInv, NoSave, IdleCall
<1>1. ASSUME NEW p \in Targets, editor' = Opened(p, editor.session), pages' = pages
      PROVE  editor'.target # NoTarget => editor'.revision <= pages'[editor'.target].revision
  <2>1. editor.session \in Nat BY <1>0 DEF Editors
  <2>2. p # NoTarget => p \in PageIds BY DEF Targets
  <2> QED BY <1>0, <1>1, <2>1, <2>2, OpenedFields
<1>2. CASE User
  <2>1. CASE Type \/ Restore \/ EndSession \/ Reauthenticate \/ OtherTabPromotes \/ \E p \in PageIds : ChangePage(p)
    BY <1>0, <2>1 DEF Type, Restore, EndSession, Reauthenticate, OtherTabPromotes, ChangePage, Editors, RevisionsKept
  <2>2. CASE Reopen
    <3>1. PICK p \in Targets : editor' = Opened(p, editor.session)
      BY <1>0, <2>2, Constants DEF Reopen, Editors, Inv, RowInv
    <3> QED BY <1>0, <1>1, <2>2, <3>1 DEF Reopen, RevisionsKept
  <2>3. CASE BeginSave
    <3>1. save'.target = editor.target /\ save'.revision = editor.revision
      BY <1>0, <2>3, PreparedType DEF BeginSave, Editors
    <3> QED BY <1>0, <2>3, <3>1 DEF BeginSave, Editors, RevisionsKept
  <2> QED BY <1>2, <2>1, <2>2, <2>3 DEF User
<1>3. CASE Losses
  BY <1>0, <1>3 DEF Losses, LoseSave, LoseDiscard, LosePut, LosePromotion, SaveAnswer, Requests, RevisionsKept
<1>4. CASE OpenPromoted
  <2>1. editor.target \in Targets BY <1>0 DEF Editors
  <2> QED BY <1>1, <1>4, <2>1 DEF OpenPromoted, stored, RevisionsKept
<1>5. CASE ServeSave
  <2>1. ASSUME NEW p \in PageIds, SaveAnswer("saved", p, pages'[p].revision)
        PROVE  save'.target # NoTarget => save'.revision <= pages'[save'.target].revision
    BY <1>0, <2>1 DEF SaveAnswer, Requests
  <2>2. ASSUME NEW result, SaveAnswer(result, save.target, save.revision)
        PROVE  save'.target = save.target /\ save'.revision = save.revision
    BY <1>0, <2>2 DEF SaveAnswer, Requests
  <2>3. ASSUME SaveAnswer("refused", NoTarget, 0) PROVE save'.target = NoTarget
    BY <1>0, <2>3 DEF SaveAnswer, Requests
  <2> QED BY <1>5, <2>1, <2>2, <2>3 DEF ServeSave, RevisionsKept
<1>6. CASE AnswerSave
  <2>1. \/ editor'.target = editor.target /\ editor'.revision = editor.revision
        \/ editor'.target = save.target /\ editor'.revision = save.revision
    BY <1>0, <1>6 DEF AnswerSave, Editors
  <2>2. pages' = pages /\ save'.target = NoTarget BY <1>0, <1>6 DEF AnswerSave
  <2> QED BY <2>1, <2>2 DEF RevisionInv, Current, RevisionsKept
<1>7. CASE BeginDiscard \/ ServeDiscard \/ AnswerDiscard
  <2>1. save' = save /\ editor'.target = editor.target /\ editor'.revision = editor.revision
    BY <1>0, <1>7 DEF BeginDiscard, ServeDiscard, AnswerDiscard, Editors
  <2> QED BY <2>1 DEF RevisionsKept
<1>8. CASE \E c \in Calls : StartCall(c) \/ ServePut(c)
  BY <1>8 DEF StartCall, ServePut, RevisionsKept
<1>9. CASE \E q \in Promoters : ReadPromotion(q) \/ CreatePromoted(q) \/ RereadPromotion(q) \/ ForgetPromotion(q)
  BY <1>9 DEF ReadPromotion, CreatePromoted, RereadPromotion, ForgetPromotion, RevisionsKept
<1>10. CASE \E l \in late : ServeLate(l)
  BY <1>10 DEF ServeLate, RevisionsKept
<1>11. CASE UNCHANGED vars
  BY <1>11 DEF vars, RevisionsKept
<1> QED BY <1>2, <1>3, <1>4, <1>5, <1>6, <1>7, <1>8, <1>9, <1>10, <1>11


LEMMA FinishRevisions ==
  ASSUME Inv, RevisionInv, RevisionsGrow, NEW c \in Calls, FinishCall(c)
  PROVE  RevisionsKept
<1> DEFINE after == AfterCall(Ended(call[c]), promotion[c])
<1>0. save \in Requests /\ c \in Promoters BY Constants DEF Inv, SaveInv
<1>1. /\ editor' = after /\ pages' = pages
      /\ save' = IF save.stage = "waiting" /\ save.on = c
                 THEN [save EXCEPT !.stage = "sent", !.on = NoCall,
                                   !.target = after.target, !.revision = after.revision]
                 ELSE save
  BY FinishParts
<1>2. \/ after.target = editor.target /\ after.revision = editor.revision
      \/ after.target = promotion[c].target /\ after.revision = promotion[c].revision
  BY AfterCallFields
<1> HIDE DEF after
<1>3. after.target # NoTarget => after.revision <= pages'[after.target].revision
  BY <1>0, <1>1, <1>2 DEF RevisionInv, Current
<1>4. \/ save'.target = save.target /\ save'.revision = save.revision
      \/ save'.target = after.target /\ save'.revision = after.revision
  BY <1>0, <1>1 DEF Requests
<1> QED BY <1>1, <1>3, <1>4 DEF RevisionsKept

LEMMA PromotionRevisions ==
  ASSUME Inv, Inv', RevisionInv, RevisionsGrow, [Next]_vars, NEW q \in Promoters
  PROVE  Current(promotion[q])'
<1>0. /\ promotion \in [Promoters -> Promotions] /\ NoPromotion.target = NoTarget
      /\ row.target \in Targets /\ (row.target # NoTarget => row.target \in PageIds)
      /\ \A p \in PageIds : pages[p].revision \in Nat
  BY DEF Inv, PromotionsInv, NoPromotion, RowInv, Targets, PagesInv
<1>1. ASSUME promotion'[q].target = promotion[q].target, promotion'[q].revision = promotion[q].revision
      PROVE  Current(promotion[q])'
  BY <1>0, <1>1, CurrentStays DEF RevisionInv, Current, Promotions
<1>2. ASSUME promotion'[q].target = NoTarget PROVE Current(promotion[q])'
  BY <1>2 DEF Current
<1>3. ASSUME promotion' = promotion PROVE Current(promotion[q])'
  BY <1>1, <1>3
<1>4. ASSUME NEW r \in Promoters, NEW p, NEW revision, PromotionAnswer(r, p, revision)
      PROVE  \/ promotion'[q] = promotion[q]
             \/ q = r /\ promotion'[q].target = p /\ promotion'[q].revision = revision
  BY <1>0, <1>4 DEF PromotionAnswer, NoPromotion
<1>5. ASSUME NEW r \in Promoters, AnswerBound(r), UNCHANGED <<pages, row>>
      PROVE  Current(promotion[q])'
  <2>1. \/ promotion'[q] = promotion[q]
        \/ /\ promotion'[q].target = row.target
           /\ row.target # NoTarget => promotion'[q].revision = pages[row.target].revision
    BY <1>4, <1>5 DEF AnswerBound
  <2> QED BY <1>0, <1>1, <1>5, <2>1 DEF Current
<1>6. ASSUME NEW r \in Promoters,
             \/ promotion' = [promotion EXCEPT ![r] = [promotion[r] EXCEPT !.stage = "read", !.text = row.text]]
             \/ promotion' = [promotion EXCEPT ![r].stage = "reread"]
             \/ promotion' = [promotion EXCEPT ![r].stage = "sent"]
             \/ promotion' = [promotion EXCEPT ![r] = NoPromotion]
      PROVE  Current(promotion[q])'
  <2>1. \/ promotion'[q].target = promotion[q].target /\ promotion'[q].revision = promotion[q].revision
        \/ promotion'[q].target = NoTarget
    <3>1. CASE promotion' = [promotion EXCEPT ![r] = [promotion[r] EXCEPT !.stage = "read", !.text = row.text]]
      BY <1>0, <3>1 DEF Promotions
    <3>2. CASE promotion' = [promotion EXCEPT ![r].stage = "reread"]
      BY <1>0, <3>2 DEF Promotions
    <3>3. CASE promotion' = [promotion EXCEPT ![r].stage = "sent"]
      BY <1>0, <3>3 DEF Promotions
    <3>4. CASE promotion' = [promotion EXCEPT ![r] = NoPromotion]
      BY <1>0, <3>4 DEF Promotions
    <3> QED BY <1>6, <3>1, <3>2, <3>3, <3>4
  <2> QED BY <1>1, <1>2, <2>1
<1>7. CASE User
  <2>1. promotion' = promotion \/ promotion' = [promotion EXCEPT ![OtherTab].stage = "sent"]
    BY <1>7 DEF User, Type, Restore, EndSession, Reauthenticate, Reopen, OtherTabPromotes, BeginSave, ChangePage
  <2> QED BY <1>3, <1>6, <2>1, Constants
<1>8. CASE Losses
  <2>1. promotion' = promotion \/ \E c \in Calls : promotion' = [promotion EXCEPT ![c] = NoPromotion]
    BY <1>8 DEF Losses, LoseSave, LoseDiscard, LosePut, LosePromotion
  <2> QED BY <1>3, <1>6, <2>1, Constants
<1>9. CASE Machine
  <2>1. ASSUME NEW c \in Calls, StartCall(c) \/ ServePut(c) \/ FinishCall(c)
        PROVE  Current(promotion[q])'
    <3>1. \/ promotion' = promotion \/ promotion' = [promotion EXCEPT ![c].stage = "sent"]
          \/ promotion' = [promotion EXCEPT ![c] = NoPromotion]
      BY <2>1 DEF StartCall, ServePut, FinishCall
    <3> QED BY <1>3, <1>6, <3>1, Constants
  <2>2. ASSUME NEW r \in Promoters, ReadPromotion(r) \/ RereadPromotion(r) \/ ForgetPromotion(r)
        PROVE  Current(promotion[q])'
    BY <1>5, <1>6, <2>2 DEF ReadPromotion, RereadPromotion, ForgetPromotion, stored
  <2>3. ASSUME NEW r \in Promoters, CreatePromoted(r) PROVE Current(promotion[q])'
    <3>1. \/ PromotionAnswer(r, NoTarget, 0)
          \/ promotion' = [promotion EXCEPT ![r].stage = "reread"]
          \/ \E p \in PageIds :
               /\ pages' = [pages EXCEPT ![p] =
                    [revision |-> 1, text |-> promotion[r].text, origin |-> "promotion"]]
               /\ PromotionAnswer(r, p, 1)
      BY <2>3 DEF CreatePromoted
    <3>2. CASE PromotionAnswer(r, NoTarget, 0) BY <1>1, <1>2, <1>4, <3>2
    <3>3. CASE promotion' = [promotion EXCEPT ![r].stage = "reread"] BY <1>6, <3>3
    <3>4. ASSUME NEW p \in PageIds,
                 pages' = [pages EXCEPT ![p] =
                    [revision |-> 1, text |-> promotion[r].text, origin |-> "promotion"]],
                 PromotionAnswer(r, p, 1)
          PROVE  Current(promotion[q])'
      <4>1. \/ promotion'[q] = promotion[q]
            \/ promotion'[q].target = p /\ promotion'[q].revision = 1
        BY <1>4, <3>4
      <4>2. pages'[p].revision = 1 BY <3>4 DEF Inv, PagesInv
      <4> QED BY <1>1, <4>1, <4>2 DEF Current
    <3> QED BY <3>1, <3>2, <3>3, <3>4
  <2>4. CASE OpenPromoted \/ ServeSave \/ AnswerSave \/ BeginDiscard \/ ServeDiscard \/ AnswerDiscard
    BY <1>3, <2>4 DEF OpenPromoted, ServeSave, AnswerSave, BeginDiscard, ServeDiscard, AnswerDiscard
  <2> QED BY <1>9, <2>1, <2>2, <2>3, <2>4 DEF Machine
<1>10. CASE \E l \in late : ServeLate(l) BY <1>3, <1>10 DEF ServeLate
<1>11. CASE UNCHANGED vars BY <1>3, <1>11 DEF vars
<1> QED BY <1>7, <1>8, <1>9, <1>10, <1>11 DEF Next

LEMMA SavedPage ==
  ASSUME Inv, RevisionInv, [Next]_vars
  PROVE  \/ saved' = saved
         \/ \E n \in PageIds, k \in Requests :
              Refers(k) /\ k.text \in Drafts /\ (CreateSaved(k, n) \/ UpdateSaved(k, n))
<1>1. CASE User
  BY <1>1 DEF User, Type, Restore, EndSession, Reauthenticate, Reopen, OtherTabPromotes, BeginSave, ChangePage, stored
<1>2. CASE Losses
  BY <1>2 DEF Losses, LoseSave, LoseDiscard, LosePut, LosePromotion, stored
<1>3. CASE ServeSave
  BY <1>3 DEF ServeSave, CreateRefused, Inv, SaveInv, NoSave, IdleCall
<1>4. CASE Machine /\ ~ServeSave
  BY <1>4 DEF Machine, StartCall, ServePut, FinishCall, ReadPromotion, CreatePromoted,
       RereadPromotion, ForgetPromotion, OpenPromoted, AnswerSave, BeginDiscard, ServeDiscard,
       AnswerDiscard, stored
<1>5. CASE \E l \in late : ServeLate(l)
  <2>1. PICK l \in late : ServeLate(l) BY <1>5
  <2>2. /\ l.request \in Requests /\ Refers(l.request)
        /\ l.kind # "discard" => l.request.text \in Drafts
    BY DEF Inv, LateInv, LateRequests
  <2> QED BY <2>1, <2>2 DEF ServeLate, CreateRefused
<1>6. CASE UNCHANGED vars BY <1>6 DEF vars, stored
<1> QED BY <1>1, <1>2, <1>3, <1>4, <1>5, <1>6 DEF Next

\* Pages never go.
LEMMA PagesNeverGo ==
  ASSUME Inv, Inv', RevisionsGrow
  PROVE  Grows
BY DEF RevisionsGrow, Grows, Exists, NoPage, Inv, PagesInv

LEMMA RevisionInvStays ==
  ASSUME Inv, Inv', RevisionInv, [Next]_vars
  PROVE  RevisionInv'
<1>1. RevisionsGrow BY RevisionsNeverDrop
<1>2. RevisionsKept
  BY <1>1, EditorRevisions, FinishRevisions DEF Next, Machine
<1>3. /\ editor.revision \in Nat /\ editor.target \in Targets
      /\ save.revision \in Nat /\ save.target \in Targets
  BY DEF Inv, EditorInv, Editors, SaveInv, Requests
<1>4. /\ \A j : j.target = editor.target /\ j.revision = editor.revision =>
                  (j.target # NoTarget => j.revision <= pages'[j.target].revision)
      /\ \A j : j.target = save.target /\ j.revision = save.revision =>
                  (j.target # NoTarget => j.revision <= pages'[j.target].revision)
  BY <1>1, <1>3, CurrentStays DEF RevisionInv
<1>5. Current(editor)' BY <1>2, <1>4 DEF RevisionsKept, Current
<1>6. Current(save)' BY <1>2, <1>4 DEF RevisionsKept, Current
<1>7. \A q \in Promoters : Current(promotion[q])' BY <1>1, PromotionRevisions
<1>8. (saved.target # NoTarget => Exists(saved.target))'
  <2>1. Grows BY <1>1, PagesNeverGo
  <2>2. saved \in [target : Targets, text : Drafts] BY DEF Inv, RestInv
  <2>3. CASE saved' = saved
    BY <2>1, <2>2, <2>3 DEF RevisionInv, Grows, Targets
  <2>4. ASSUME NEW n \in PageIds, NEW k \in Requests, Refers(k), k.text \in Drafts,
               CreateSaved(k, n) \/ UpdateSaved(k, n)
        PROVE  (saved.target # NoTarget => Exists(saved.target))'
    BY <2>4, PageSaved DEF CreateSaved, UpdateSaved
  <2> QED BY <2>3, <2>4, SavedPage
<1> QED BY <1>5, <1>6, <1>7, <1>8 DEF RevisionInv


-----------------------------------------------------------------------------
(* What the hook and the requests know of the row.                         *)

\* A Save or an open recovery dialog keeps the draft as it is.
HookInv ==
  /\ save.stage \in {"idle", "waiting", "sent", "answered"}
  /\ save.stage = "idle" => save = NoSave
  /\ save.stage # "answered" => save.result = "none"
  /\ save.result = "saved" => save.target # NoTarget
  /\ save # NoSave => HasChanges /\ ~Recovering /\ ~editor.conflict /\ editor.text >= save.text
  /\ save.stage = "sent" /\ save.target # NoTarget => editor.target # NoTarget
  /\ Recovering => ~HasChanges

\* Unless writes of the editor overlap, the one in flight is the one it waits for.
TurnInv ==
  /\ crowded => stray /\ \E c \in Calls : Working(call[c])
  /\ ~crowded => \A c \in Calls : Working(call[c]) <=> inFlight = c

Alone == ~crowded /\ inFlight # NoCall

\* A write on its way alone is of the editor's Page, and the draft is still
\* to be stored when it ends.
AloneInv ==
  Alone =>
    LET k == call[inFlight]
    IN /\ HasChanges /\ editor.text # editor.persisted /\ ~Recovering /\ ~editor.conflict
       /\ save.stage \in {"idle", "waiting"}
       /\ k.stage \in {"put", "promote"} => k.target = editor.target /\ k.revision = editor.revision
       /\ k.stage = "promote" => k.target = NoTarget
       /\ editor.text >= k.text
       /\ save.stage = "waiting" /\ editor.text # save.text => k.text # editor.text

\* The row, beside the newest saved Page and the Page of the editor.
RowKnown ==
  /\ Recovering => /\ HasRow /\ row.text = editor.candidate /\ row.text = editor.persisted
                   /\ row.target = editor.target \/ editor.target = NoTarget
  /\ HasRow /\ (row.target = saved.target \/ saved.target = NoTarget) => row.text >= saved.text
  /\ editor.target # NoTarget => ~(HasRow /\ row.target = NoTarget)
  /\ editor.target = NoTarget /\ saved.target # NoTarget => row.target # saved.target
  /\ save.result = "saved" =>
       save.target = saved.target /\ (HasRow => row.target \notin {NoTarget, save.target})

\* The draft: what it takes for stored is, and what it takes for refused too.
DraftKnown ==
  /\ HasChanges /\ ~Recovering /\ editor.text = editor.persisted => editor.text \in {row.text, saved.text}
  /\ save.stage \in {"waiting", "sent"} /\ HasChanges /\ editor.text = editor.persisted => editor.text = save.text
  /\ editor.conflict => PutRefused(editor.target, editor.revision)
  /\ HasChanges /\ ~Recovering /\ (editor.target = saved.target \/ saved.target = NoTarget) =>
       editor.text >= saved.text

\* The write that is on its way alone: what it stored is the row, what it
\* promoted is the Page of the row, and it is not older than the saved Page.
WriteKnown(k, g) ==
  /\ (k.stage = "promote" \/ (k.stage = "answered" /\ k.result = "saved")) => HasRow /\ row.text = k.text
  /\ k.stage = "answered" /\ k.result = "conflict" => PutRefused(editor.target, editor.revision)
  /\ k.stage = "promote" /\ g.stage = "done" /\ g.target # NoTarget => HasRow /\ row.target = g.target
  /\ k.stage = "put" /\ (k.target = saved.target \/ saved.target = NoTarget) => k.text >= saved.text

KnownInv ==
  ~stray =>
    RowKnown /\ DraftKnown /\ (inFlight # NoCall => WriteKnown(call[inFlight], promotion[inFlight]))

DraftInv == HookInv /\ TurnInv /\ AloneInv /\ KnownInv

AllInv == Inv /\ FreshInv /\ RevisionInv /\ DraftInv

-----------------------------------------------------------------------------
(* Every step keeps what is known.                                         *)

LEMMA Ints ==
  ASSUME Inv
  PROVE  /\ editor.text \in Int /\ editor.original \in Int /\ editor.persisted \in Int /\ editor.candidate \in Int
         /\ row.text \in Int /\ saved.text \in Int /\ save.text \in Int /\ counts.texts \in Int
         /\ \A c \in Calls : call[c].text \in Int
         /\ editor \in Editors /\ save \in Requests
         /\ inFlight # NoCall => inFlight \in Calls
         /\ editor.text # Nothing
         /\ IdleCall.stage = "idle" /\ NoSave.stage = "idle" /\ NoSave.result = "none" /\ NoCall \notin Calls
<1>1. \A t \in Drafts \cup {Nothing} : t \in Int /\ (t \in Drafts => t # Nothing) BY Numbers, Constants
<1>2. /\ editor \in Editors /\ save \in Requests /\ call \in [Calls -> Requests]
      /\ row.text \in Drafts \cup {Nothing} /\ saved.text \in Drafts /\ counts.texts \in Int
      /\ inFlight # NoCall => inFlight \in Calls
  BY DEF Inv, EditorInv, SaveInv, CallsInv, RowInv, RestInv
<1>3. IdleCall.stage = "idle" /\ NoSave.stage = "idle" /\ NoSave.result = "none" /\ NoCall \notin Calls
  BY ConstantAssumption DEF IdleCall, NoSave
<1> QED BY <1>1, <1>2, <1>3 DEF Editors, Requests

SameDraft ==
  /\ editor'.text = editor.text /\ editor'.original = editor.original
  /\ editor'.persisted = editor.persisted /\ editor'.candidate = editor.candidate
  /\ editor'.target = editor.target /\ editor'.revision = editor.revision
  /\ editor'.conflict => editor.conflict

\* Steps that leave the row, the draft, the writer and the Save alone.
LEMMA DraftInvKept ==
  ASSUME AllInv, SameDraft, UNCHANGED <<row, saved, save, writer>>, stray' = stray \/ stray',
         PutRefused(editor.target, editor.revision) => PutRefused(editor.target, editor.revision)',
         ~stray' /\ inFlight # NoCall /\ call[inFlight].stage = "promote"
                 /\ promotion'[inFlight].stage = "done" /\ promotion'[inFlight].target # NoTarget =>
           HasRow /\ row.target = promotion'[inFlight].target
  PROVE  DraftInv'
<1> USE DEF AllInv, DraftInv, writer
<1>1. HookInv' BY DEF HookInv, SameDraft, HasChanges, Recovering
<1>2. TurnInv' BY DEF TurnInv, Working
<1>3. AloneInv' BY DEF AloneInv, Alone, SameDraft, HasChanges, Recovering
<1>4. KnownInv'
  <2> SUFFICES ASSUME ~stray' PROVE RowKnown' /\ DraftKnown' /\ (inFlight # NoCall => WriteKnown(call[inFlight], promotion[inFlight]))'
    BY DEF KnownInv
  <2>1. RowKnown /\ DraftKnown /\ (inFlight # NoCall => WriteKnown(call[inFlight], promotion[inFlight]))
    BY DEF KnownInv
  <2>2. RowKnown' BY <2>1 DEF RowKnown, SameDraft, HasRow, Recovering
  <2>3. DraftKnown' BY <2>1 DEF DraftKnown, SameDraft, HasChanges, Recovering
  <2>4. (inFlight # NoCall => WriteKnown(call[inFlight], promotion[inFlight]))'
    BY <2>1 DEF WriteKnown, HasRow
  <2> QED BY <2>2, <2>3, <2>4
<1> QED BY <1>1, <1>2, <1>3, <1>4


LEMMA HarmlessSteps ==
  ASSUME AllInv,
         EndSession \/ Reauthenticate \/ BeginDiscard \/ LoseDiscard \/ UNCHANGED vars
  PROVE  DraftInv'
<1>1. SameDraft
  BY DEF AllInv, Inv, EditorInv, Editors, SameDraft, EndSession, Reauthenticate, BeginDiscard, LoseDiscard, vars
<1>2. UNCHANGED <<pages, row, saved, save, writer, stray, promotion>>
  BY DEF EndSession, Reauthenticate, BeginDiscard, LoseDiscard, vars, stored
<1>3. PutRefused(editor.target, editor.revision) => PutRefused(editor.target, editor.revision)'
  BY <1>1, <1>2 DEF PutRefused, SameDraft, HasRow
<1>4. ~stray' /\ inFlight # NoCall /\ call[inFlight].stage = "promote"
              /\ promotion'[inFlight].stage = "done" /\ promotion'[inFlight].target # NoTarget =>
        HasRow /\ row.target = promotion'[inFlight].target
  BY <1>2 DEF AllInv, DraftInv, KnownInv, WriteKnown
<1> QED BY <1>1, <1>2, <1>3, <1>4, DraftInvKept

\* A Page that is changed only makes more revisions old.
LEMMA ChangePageKeeps ==
  ASSUME AllInv, NEW p \in PageIds, ChangePage(p)
  PROVE  DraftInv'
<1>1. UNCHANGED <<row, saved, save, writer, stray, promotion, editor>>
  BY DEF ChangePage
<1>2. SameDraft BY <1>1 DEF SameDraft
<1>3. PutRefused(editor.target, editor.revision) => PutRefused(editor.target, editor.revision)'
  <2>1. editor.target # NoTarget => editor.target \in PageIds
    BY DEF AllInv, Inv, EditorInv, Editors, Targets
  <2>2. \A x \in PageIds : pages[x].revision \in Nat /\ pages'[x].revision \in {pages[x].revision, pages[x].revision + 1}
                           /\ (x = p => pages'[x].revision = pages[x].revision + 1)
                           /\ (x # p => pages'[x].revision = pages[x].revision)
    BY DEF AllInv, Inv, PagesInv, ChangePage
  <2>3. editor.revision \in Nat /\ (editor.target # NoTarget => editor.revision <= pages[editor.target].revision)
    BY DEF AllInv, Inv, EditorInv, Editors, RevisionInv, Current
  <2> QED BY <1>1, <2>1, <2>2, <2>3 DEF PutRefused, HasRow
<1>4. ~stray' /\ inFlight # NoCall /\ call[inFlight].stage = "promote"
              /\ promotion'[inFlight].stage = "done" /\ promotion'[inFlight].target # NoTarget =>
        HasRow /\ row.target = promotion'[inFlight].target
  BY <1>1 DEF AllInv, DraftInv, KnownInv, WriteKnown
<1> QED BY <1>1, <1>2, <1>3, <1>4, DraftInvKept

\* The answer of a promotion names the Page of the row.
LEMMA ReadKeeps ==
  ASSUME AllInv, NEW q \in Promoters,
         ReadPromotion(q) \/ RereadPromotion(q) \/ ForgetPromotion(q) \/ OtherTabPromotes
  PROVE  DraftInv'
<1>0. promotion \in [Promoters -> Promotions] /\ NoPromotion.stage = "none"
  BY DEF AllInv, Inv, PromotionsInv, NoPromotion
<1>1. UNCHANGED <<pages, row, saved, save, writer, stray, editor>>
  BY DEF ReadPromotion, RereadPromotion, ForgetPromotion, OtherTabPromotes, stored
<1>2. SameDraft BY <1>1 DEF SameDraft
<1>3. PutRefused(editor.target, editor.revision) => PutRefused(editor.target, editor.revision)'
  BY <1>1 DEF PutRefused, HasRow
<1>4. ASSUME NEW c \in Promoters, promotion'[c].stage = "done", promotion'[c].target # NoTarget
      PROVE  \/ promotion[c].stage = "done" /\ promotion[c].target = promotion'[c].target
             \/ HasRow /\ row.target = promotion'[c].target
  <2>1. ASSUME AnswerBound(q)
        PROVE  promotion'[c] = promotion[c] \/ promotion'[c].target = row.target
    BY <1>0, <2>1 DEF AnswerBound, PromotionAnswer, NoPromotion
  <2>2. row.target # NoTarget => HasRow BY DEF HasRow, NoRow
  <2>3. CASE AnswerBound(q) BY <1>4, <2>1, <2>2, <2>3
  <2>4. CASE promotion' = [promotion EXCEPT ![q] = [promotion[q] EXCEPT !.stage = "read", !.text = row.text]]
    BY <1>0, <1>4, <2>4 DEF Promotions
  <2>5. CASE promotion' = [promotion EXCEPT ![q] = NoPromotion]
    BY <1>0, <1>4, <2>5 DEF Promotions
  <2>6. CASE promotion' = [promotion EXCEPT ![OtherTab].stage = "sent"]
    BY <1>0, <1>4, <2>6 DEF Promotions
  <2> QED BY <2>3, <2>4, <2>5, <2>6 DEF ReadPromotion, RereadPromotion, ForgetPromotion, OtherTabPromotes
<1>5. ~stray' /\ inFlight # NoCall /\ call[inFlight].stage = "promote"
              /\ promotion'[inFlight].stage = "done" /\ promotion'[inFlight].target # NoTarget =>
        HasRow /\ row.target = promotion'[inFlight].target
  <2>1. inFlight # NoCall => inFlight \in Promoters BY Constants DEF AllInv, Inv, RestInv
  <2> QED BY <1>1, <1>4, <2>1 DEF AllInv, DraftInv, KnownInv, WriteKnown
<1> QED BY <1>1, <1>2, <1>3, <1>5, DraftInvKept

\* A newer text is neither stored nor refused yet.
LEMMA TypeKeeps ==
  ASSUME AllInv, Type
  PROVE  DraftInv'
<1> USE DEF AllInv, DraftInv
<1>0. /\ editor' = [editor EXCEPT !.text = counts.texts + 1] /\ ~Recovering
      /\ UNCHANGED <<pages, row, saved, stray, inFlight, call, crowded, promotion, save>>
  BY DEF Type, stored, writer
<1>1. /\ editor'.text = counts.texts + 1 /\ editor'.original = editor.original
      /\ editor'.persisted = editor.persisted /\ editor'.candidate = editor.candidate
      /\ editor'.target = editor.target /\ editor'.revision = editor.revision
      /\ editor'.conflict = editor.conflict
  BY <1>0 DEF Inv, EditorInv, Editors
<1>2. /\ editor.text < counts.texts + 1 /\ editor.original < counts.texts + 1
      /\ editor.persisted < counts.texts + 1 /\ saved.text < counts.texts + 1 /\ save.text < counts.texts + 1
      /\ \A c \in Calls : call[c].text < counts.texts + 1
  BY Ints DEF FreshInv, Fresh
<1>3. HookInv' BY <1>0, <1>1, <1>2, Ints DEF HookInv, HasChanges, Recovering
<1>4. TurnInv' BY <1>0 DEF TurnInv, Working
<1>5. AloneInv' BY <1>0, <1>1, <1>2, Ints DEF AloneInv, Alone, HasChanges, Recovering
<1>6. KnownInv'
  <2> SUFFICES ASSUME ~stray' PROVE RowKnown' /\ DraftKnown' /\ (inFlight # NoCall => WriteKnown(call[inFlight], promotion[inFlight]))'
    BY DEF KnownInv
  <2>1. RowKnown /\ DraftKnown /\ (inFlight # NoCall => WriteKnown(call[inFlight], promotion[inFlight]))
    BY <1>0 DEF KnownInv
  <2>2. RowKnown' BY <1>0, <1>1, <2>1 DEF RowKnown, HasRow, Recovering
  <2>3. DraftKnown' BY <1>0, <1>1, <1>2, <2>1, Ints DEF DraftKnown, PutRefused, HasRow
  <2>4. (inFlight # NoCall => WriteKnown(call[inFlight], promotion[inFlight]))'
    BY <1>0, <1>1, <2>1 DEF WriteKnown, HasRow, PutRefused
  <2> QED BY <2>2, <2>3, <2>4
<1> QED BY <1>3, <1>4, <1>5, <1>6

\* What is restored is what the row holds.
LEMMA RestoreKeeps ==
  ASSUME AllInv, Restore
  PROVE  DraftInv'
<1> USE DEF AllInv, DraftInv
<1>0. /\ editor' = [editor EXCEPT !.text = editor.candidate, !.candidate = Nothing] /\ Recovering
      /\ UNCHANGED <<pages, row, saved, stray, inFlight, call, crowded, promotion, save>>
  BY DEF Restore, stored, writer
<1>1. /\ editor'.text = editor.candidate /\ editor'.original = editor.original
      /\ editor'.persisted = editor.persisted /\ editor'.candidate = Nothing
      /\ editor'.target = editor.target /\ editor'.revision = editor.revision
      /\ editor'.conflict = editor.conflict
  BY <1>0 DEF Inv, EditorInv, Editors
<1>2. save = NoSave /\ ~Alone BY <1>0 DEF HookInv, AloneInv
<1>3. HookInv' BY <1>0, <1>1, <1>2 DEF HookInv, HasChanges, Recovering
<1>4. TurnInv' BY <1>0 DEF TurnInv, Working
<1>5. AloneInv' BY <1>0, <1>2 DEF AloneInv, Alone
<1>6. KnownInv'
  <2> SUFFICES ASSUME ~stray' PROVE RowKnown' /\ DraftKnown' /\ (inFlight # NoCall => WriteKnown(call[inFlight], promotion[inFlight]))'
    BY DEF KnownInv
  <2>1. RowKnown /\ DraftKnown /\ (inFlight # NoCall => WriteKnown(call[inFlight], promotion[inFlight]))
    BY <1>0 DEF KnownInv
  <2>2. RowKnown' BY <1>0, <1>1, <2>1 DEF RowKnown, HasRow, Recovering
  <2>3. DraftKnown' BY <1>0, <1>1, <1>2, <2>1, Ints DEF DraftKnown, RowKnown, PutRefused, HasRow
  <2>4. inFlight' = NoCall BY <1>0, <1>2 DEF Alone, TurnInv
  <2> QED BY <2>2, <2>3, <2>4
<1> QED BY <1>3, <1>4, <1>5, <1>6


\* A draft that is opened knows of the row what it loads.
LEMMA OpenedKnows ==
  ASSUME AllInv, NEW p \in Targets, NEW session \in Nat, editor' = Opened(p, session),
         UNCHANGED <<row, saved, stray>>, save' = NoSave, ~Alone',
         ~stray => inFlight' = NoCall,
         ~stray /\ p # NoTarget => ~(HasRow /\ row.target = NoTarget),
         ~stray /\ p = NoTarget /\ saved.target # NoTarget => row.target # saved.target
  PROVE  HookInv' /\ AloneInv' /\ KnownInv'
<1> USE DEF AllInv, DraftInv
<1>1. /\ editor'.target = p /\ editor'.text = editor'.original /\ ~editor'.conflict
      /\ editor'.candidate # Nothing =>
           HasRow /\ row.target = p /\ editor'.candidate = row.text /\ editor'.persisted = row.text
  BY OpenedFields
<1>2. HookInv' BY <1>1, Ints DEF HookInv, HasChanges, Recovering
<1>3. AloneInv' BY DEF AloneInv
<1>4. KnownInv'
  <2> SUFFICES ASSUME ~stray' PROVE RowKnown' /\ DraftKnown' /\ inFlight' = NoCall
    BY DEF KnownInv
  <2>1. RowKnown BY DEF KnownInv
  <2>2. RowKnown' BY <1>1, <2>1, Ints DEF RowKnown, HasRow, Recovering
  <2>3. DraftKnown' BY <1>1, Ints DEF DraftKnown, HasChanges
  <2> QED BY <2>2, <2>3
<1> QED BY <1>2, <1>3, <1>4

LEMMA ReopenKeeps ==
  ASSUME AllInv, Reopen
  PROVE  DraftInv'
<1> USE DEF AllInv, DraftInv
<1> DEFINE p == IF HasRow THEN row.target ELSE IF editor.onPage THEN editor.target ELSE NoTarget
<1>1. /\ editor' = Opened(p, editor.session)
      /\ UNCHANGED <<row, saved, stray>> /\ save' = NoSave /\ inFlight' = NoCall
      /\ call' = [c \in Calls |-> IdleCall] /\ crowded' = FALSE
  BY DEF Reopen
<1>2. p \in Targets /\ editor.session \in Nat
  BY Constants DEF Inv, RowInv, EditorInv, Editors
<1>3. ~Alone' BY <1>1 DEF Alone
<1>4. /\ p # NoTarget => ~(HasRow /\ row.target = NoTarget)
      /\ p = NoTarget /\ saved.target # NoTarget => row.target # saved.target
  BY DEF HasRow, NoRow
<1>5. TurnInv' BY <1>1, Ints DEF TurnInv, Working
<1> HIDE DEF p
<1> QED BY <1>1, <1>2, <1>3, <1>4, <1>5, OpenedKnows

LEMMA OpenPromotedKeeps ==
  ASSUME AllInv, OpenPromoted
  PROVE  DraftInv'
<1> USE DEF AllInv, DraftInv
<1>1. /\ editor' = Opened(editor.target, editor.session) /\ editor.target # NoTarget
      /\ UNCHANGED <<row, saved, stray, call, inFlight, crowded, save>>
      /\ save = NoSave /\ editor.text = editor.persisted
  BY DEF OpenPromoted, stored, writer, Recoverable, Active
<1>2. editor.target \in Targets /\ editor.session \in Nat
  BY DEF Inv, EditorInv, Editors
<1>3. ~Alone' BY <1>1 DEF Alone, AloneInv
<1>4. ~stray => inFlight' = NoCall BY <1>1, <1>3 DEF Alone, TurnInv
<1>5. ~stray /\ editor.target # NoTarget => ~(HasRow /\ row.target = NoTarget)
  BY DEF KnownInv, RowKnown
<1>6. TurnInv' BY <1>1 DEF TurnInv, Working
<1> QED BY <1>1, <1>2, <1>3, <1>4, <1>5, <1>6, OpenedKnows

\* A write starts with the draft as it is.
LEMMA StartKeeps ==
  ASSUME AllInv, NEW c \in Calls, StartCall(c)
  PROVE  DraftInv'
<1> USE DEF AllInv, DraftInv
<1>0. /\ call[c] = IdleCall /\ HasChanges /\ save = NoSave /\ ~Recovering /\ ~editor.conflict
      /\ editor.text # editor.persisted
      /\ UNCHANGED <<pages, row, saved, stray, editor, crowded, promotion, save>>
      /\ \/ inFlight = NoCall /\ inFlight' = c /\ call' = [call EXCEPT ![c] = Put(editor)]
         \/ /\ inFlight # NoCall /\ inFlight' = inFlight
            /\ call' = [call EXCEPT ![c] = [IdleCall EXCEPT !.stage = "waiting", !.on = inFlight]]
  BY DEF StartCall, stored, Free, Active
<1>1. /\ Put(editor).stage = "put" /\ Put(editor).text = editor.text
      /\ Put(editor).target = editor.target /\ Put(editor).revision = editor.revision
      /\ [IdleCall EXCEPT !.stage = "waiting", !.on = inFlight].stage = "waiting"
  BY PutType DEF Inv, EditorInv, IdleCall
<1>2. \/ /\ inFlight = NoCall /\ inFlight' = c /\ c # NoCall
         /\ call'[c].stage = "put" /\ call'[c].text = editor.text
         /\ call'[c].target = editor.target /\ call'[c].revision = editor.revision
         /\ \A d \in Calls \ {c} : call'[d] = call[d]
      \/ /\ inFlight # NoCall /\ inFlight' = inFlight /\ call'[c].stage = "waiting"
         /\ \A d \in Calls \ {c} : call'[d] = call[d]
  BY <1>0, <1>1, Ints DEF Inv, CallsInv
<1>3. ~Working(call[c]) BY <1>0, Ints DEF Working
<1>4. HookInv' BY <1>0 DEF HookInv, HasChanges, Recovering
<1>5. TurnInv'
  <2>1. CASE crowded
    <3>1. PICK d \in Calls : Working(call[d]) BY <2>1 DEF TurnInv
    <3>2. Working(call'[d]) BY <1>2, <1>3, <3>1
    <3> QED BY <1>0, <2>1, <3>2 DEF TurnInv
  <2>2. CASE ~crowded
    <3>1. \A d \in Calls : Working(call'[d]) <=> inFlight' = d
      BY <1>2, <1>3, <2>2, Ints DEF TurnInv, Working
    <3> QED BY <1>0, <2>2, <3>1 DEF TurnInv
  <2> QED BY <2>1, <2>2
<1>6. ASSUME inFlight # NoCall, ~crowded PROVE call'[inFlight'] = call[inFlight] /\ inFlight' = inFlight
  BY <1>2, <1>3, <1>6, Ints DEF TurnInv
<1>7. AloneInv'
  <2>1. CASE inFlight = NoCall
    BY <1>0, <1>2, <2>1, Ints DEF AloneInv, Alone, HasChanges, Recovering
  <2>2. CASE inFlight # NoCall
    BY <1>0, <1>2, <1>6, <2>2 DEF AloneInv, Alone, HasChanges, Recovering
  <2> QED BY <2>1, <2>2
<1>8. KnownInv'
  <2> SUFFICES ASSUME ~stray' PROVE RowKnown' /\ DraftKnown' /\ (inFlight # NoCall => WriteKnown(call[inFlight], promotion[inFlight]))'
    BY DEF KnownInv
  <2>1. RowKnown /\ DraftKnown /\ (inFlight # NoCall => WriteKnown(call[inFlight], promotion[inFlight])) /\ ~crowded
    BY <1>0 DEF KnownInv, TurnInv
  <2>2. RowKnown' BY <1>0, <2>1 DEF RowKnown, HasRow, Recovering
  <2>3. DraftKnown' BY <1>0, <2>1 DEF DraftKnown, HasChanges, Recovering, PutRefused, HasRow
  <2>4. (inFlight # NoCall => WriteKnown(call[inFlight], promotion[inFlight]))'
    <3>1. CASE inFlight = NoCall
      BY <1>0, <1>2, <2>1, <3>1 DEF WriteKnown, DraftKnown
    <3>2. CASE inFlight # NoCall
      BY <1>0, <1>6, <2>1, <3>2 DEF WriteKnown, HasRow, PutRefused
    <3> QED BY <3>1, <3>2
  <2> QED BY <2>2, <2>3, <2>4
<1> QED BY <1>4, <1>5, <1>7, <1>8


\* A write that ends, or is promoted, without a change of the row.
LEMMA AnsweredKeeps ==
  ASSUME AllInv, NEW c \in Calls, Working(call[c]),
         UNCHANGED <<pages, row, saved, stray, editor, inFlight, crowded, save>>,
         \A d \in Calls \ {c} : call'[d] = call[d],
         call'[c].text = call[c].text, call'[c].stage = "answered",
         call'[c].result = "conflict" /\ c = inFlight /\ ~stray => PutRefused(editor.target, editor.revision),
         call'[c].result = "saved" => call[c].stage = "promote",
         \A d \in Calls \ {c} : promotion'[d] = promotion[d]
  PROVE  DraftInv'
<1> USE DEF AllInv, DraftInv
<1>1. Working(call'[c]) BY DEF Working
<1>2. HookInv' BY DEF HookInv, HasChanges, Recovering
<1>3. TurnInv'
  <2>1. \A d \in Calls : Working(call'[d]) <=> Working(call[d]) BY <1>1
  <2> QED BY <2>1 DEF TurnInv
<1>4. AloneInv'
  <2>1. CASE ~Alone BY <2>1 DEF AloneInv, Alone
  <2>2. CASE Alone
    <3>1. inFlight = c BY <2>2 DEF Alone, TurnInv
    <3> QED BY <2>2, <3>1 DEF AloneInv, Alone, HasChanges, Recovering
  <2> QED BY <2>1, <2>2
<1>5. KnownInv'
  <2> SUFFICES ASSUME ~stray' PROVE RowKnown' /\ DraftKnown' /\ (inFlight # NoCall => WriteKnown(call[inFlight], promotion[inFlight]))'
    BY DEF KnownInv
  <2>1. RowKnown /\ DraftKnown /\ inFlight = c /\ WriteKnown(call[c], promotion[c])
    BY Ints DEF KnownInv, TurnInv
  <2>2. RowKnown' BY <2>1 DEF RowKnown, HasRow, Recovering
  <2>3. DraftKnown' BY <2>1 DEF DraftKnown, HasChanges, Recovering, PutRefused, HasRow
  <2>4. WriteKnown(call[inFlight], promotion[inFlight])'
    BY <2>1 DEF WriteKnown, HasRow, PutRefused
  <2> QED BY <2>2, <2>3, <2>4
<1> QED BY <1>2, <1>3, <1>4, <1>5

\* A write that is stored.  On its way alone, it makes the row known again.
LEMMA StoredKeeps ==
  ASSUME AllInv, NEW c \in Calls, call[c].stage = "put", StoreRow(call[c]),
         stray' = StrayAfter(call[c]),
         UNCHANGED <<pages, saved, editor, inFlight, crowded, save>>,
         \A d \in Calls \ {c} : call'[d] = call[d],
         call'[c].text = call[c].text, call'[c].target = call[c].target, call'[c].revision = call[c].revision,
         \/ call'[c].stage = "answered" /\ call'[c].result # "conflict"
         \/ call'[c].stage = "promote" /\ call[c].target = NoTarget /\ promotion'[c].stage = "sent"
  PROVE  DraftInv'
<1> USE DEF AllInv, DraftInv
<1>0. row' = [target |-> call[c].target, base |-> call[c].revision, text |-> call[c].text]
  BY DEF StoreRow
<1>1. Working(call'[c]) /\ Working(call[c]) BY DEF Working
<1>2. HookInv' BY DEF HookInv, HasChanges, Recovering
<1>3. TurnInv'
  <2>1. \A d \in Calls : Working(call'[d]) <=> Working(call[d]) BY <1>1
  <2>2. crowded => stray' BY DEF StrayAfter
  <2> QED BY <2>1, <2>2 DEF TurnInv
<1>4. AloneInv'
  <2>1. CASE ~Alone BY <2>1 DEF AloneInv, Alone
  <2>2. CASE Alone
    <3>1. inFlight = c BY <1>1, <2>2 DEF Alone, TurnInv
    <3> QED BY <2>2, <3>1 DEF AloneInv, Alone, HasChanges, Recovering
  <2> QED BY <2>1, <2>2
<1>5. KnownInv'
  <2> SUFFICES ASSUME ~stray' PROVE RowKnown' /\ DraftKnown' /\ (inFlight # NoCall => WriteKnown(call[inFlight], promotion[inFlight]))'
    BY DEF KnownInv
  <2>1. /\ ~crowded /\ inFlight = c /\ Alone
        /\ stray => call[c].text >= saved.text
    <3>1. ~crowded /\ (stray => ~(call[c].text < saved.text)) BY DEF StrayAfter
    <3> QED BY <1>1, <3>1, Ints DEF TurnInv, Alone
  <2>2. /\ HasChanges /\ editor.text # editor.persisted /\ ~Recovering /\ ~editor.conflict
        /\ save.stage \in {"idle", "waiting"} /\ save.result = "none"
        /\ call[c].target = editor.target /\ editor.text >= call[c].text
    BY <2>1 DEF AloneInv, HookInv
  <2>3. /\ row'.text = call[c].text /\ row'.target = call[c].target /\ HasRow'
    <3>1. call[c].text # Nothing
      BY Constants DEF Inv, CallsInv
    <3> QED BY <1>0, <3>1 DEF HasRow, NoRow
  <2>4. call[c].target = saved.target \/ saved.target = NoTarget => call[c].text >= saved.text
    BY <2>1, Ints DEF KnownInv, WriteKnown
  <2>5. RowKnown' BY <2>2, <2>3, <2>4 DEF RowKnown, Recovering
  <2>6. DraftKnown'
    <3>1. (editor.target = saved.target \/ saved.target = NoTarget) => editor.text >= saved.text
      BY <2>2, <2>4, Ints
    <3> QED BY <2>2, <3>1 DEF DraftKnown
  <2>7. WriteKnown(call[inFlight], promotion[inFlight])'
    BY <2>1, <2>3 DEF WriteKnown
  <2> QED BY <2>5, <2>6, <2>7
<1> QED BY <1>2, <1>3, <1>4, <1>5

LEMMA AnswerFields ==
  ASSUME Inv, NEW c \in Calls, NEW result \in Results, Answer(c, result)
  PROVE  /\ \A d \in Calls \ {c} : call'[d] = call[d]
         /\ call'[c].text = call[c].text /\ call'[c].stage = "answered" /\ call'[c].result = result
         /\ call'[c].target = call[c].target /\ call'[c].revision = call[c].revision
BY DEF Answer, Inv, CallsInv, Requests

LEMMA PutKeeps ==
  ASSUME AllInv, NEW c \in Calls, ServePut(c) \/ LosePut(c)
  PROVE  DraftInv'
<1> DEFINE k == call[c]
<1>0. k.stage = "put" /\ UNCHANGED <<pages, saved, editor, inFlight, crowded, save>> /\ Inv
  BY DEF ServePut, LosePut, AllInv
<1>1. Working(call[c]) BY <1>0 DEF Working
<1>2. CASE UNCHANGED <<row, stray, promotion>> /\ (Answer(c, "session_ended") \/ Answer(c, "failed"))
  <2>1. PICK result \in {"session_ended", "failed"} : Answer(c, result) BY <1>2
  <2>2. result \in Results BY DEF Results
  <2> QED BY <1>0, <1>1, <1>2, <2>1, <2>2, AnswerFields, AnsweredKeeps
<1>3. CASE UNCHANGED <<row, stray, promotion>> /\ Answer(c, "conflict") /\ PutRefused(k.target, k.revision)
  <2>1. c = inFlight /\ ~stray => PutRefused(editor.target, editor.revision)
    <3> SUFFICES ASSUME c = inFlight, ~stray PROVE PutRefused(editor.target, editor.revision)
      OBVIOUS
    <3>1. Alone BY Ints, <1>0 DEF Alone, AllInv, DraftInv, TurnInv
    <3>2. k.target = editor.target /\ k.revision = editor.revision
      BY <1>0, <3>1 DEF AllInv, DraftInv, AloneInv
    <3> QED BY <1>3, <3>2
  <2> QED BY <1>0, <1>1, <1>3, <2>1, AnswerFields, AnsweredKeeps DEF Results
<1>4. CASE /\ StoreRow(k) /\ stray' = StrayAfter(k)
           /\ (Answer(c, "saved") \/ Answer(c, "failed"))
  <2>1. PICK result \in {"saved", "failed"} : Answer(c, result) BY <1>4
  <2>2. result \in Results BY DEF Results
  <2> QED BY <1>0, <1>4, <2>1, <2>2, AnswerFields, StoredKeeps
<1>5. CASE /\ StoreRow(k) /\ stray' = StrayAfter(k) /\ Promotes(k)
           /\ call' = [call EXCEPT ![c].stage = "promote"]
           /\ promotion' = [promotion EXCEPT ![c].stage = "sent"]
  <2>1. /\ \A d \in Calls \ {c} : call'[d] = call[d]
        /\ call'[c].text = call[c].text /\ call'[c].stage = "promote"
        /\ call'[c].target = call[c].target /\ call'[c].revision = call[c].revision
    BY <1>0, <1>5 DEF Inv, CallsInv, Requests
  <2>2. promotion'[c].stage = "sent"
    BY <1>0, <1>5, Constants DEF Inv, PromotionsInv, Promotions
  <2> QED BY <1>0, <1>5, <2>1, <2>2, StoredKeeps DEF Promotes
<1>6. CASE ServePut(c) BY <1>2, <1>3, <1>4, <1>5, <1>6 DEF ServePut
<1>7. CASE LosePut(c) BY <1>2, <1>4, <1>7 DEF LosePut
<1> QED BY <1>6, <1>7

LEMMA LosePromotionKeeps ==
  ASSUME AllInv, NEW c \in Calls, LosePromotion(c)
  PROVE  DraftInv'
<1>0. /\ call[c].stage = "promote" /\ Answer(c, "saved") /\ promotion' = [promotion EXCEPT ![c] = NoPromotion]
      /\ UNCHANGED <<pages, row, saved, stray, editor, inFlight, crowded, save>>
  BY DEF LosePromotion, stored
<1>1. \A d \in Calls \ {c} : promotion'[d] = promotion[d]
  BY <1>0, Constants DEF AllInv, Inv, PromotionsInv
<1> QED BY <1>0, <1>1, AnswerFields, AnsweredKeeps DEF AllInv, Results, Working

\* A promotion binds the row, so the editor's own answer will name that Page.
LEMMA CreatePromotedKeeps ==
  ASSUME AllInv, NEW q \in Promoters, CreatePromoted(q)
  PROVE  DraftInv'
<1> USE DEF AllInv, DraftInv
<1>0. UNCHANGED <<saved, stray, editor, inFlight, call, crowded, save>> /\ SameDraft
  BY DEF CreatePromoted, writer, SameDraft
<1>1. promotion \in [Promoters -> Promotions] /\ (inFlight # NoCall => inFlight \in Promoters)
  BY Constants DEF Inv, PromotionsInv, RestInv
<1>2. CASE UNCHANGED <<pages, row>>
  <2>1. ASSUME NEW r \in Promoters, promotion'[r].stage = "done", promotion'[r].target # NoTarget
        PROVE  promotion[r] = promotion'[r]
    <3>1. CASE PromotionAnswer(q, NoTarget, 0)
      BY <1>1, <2>1, <3>1 DEF PromotionAnswer, NoPromotion
    <3>2. CASE promotion' = [promotion EXCEPT ![q].stage = "reread"]
      BY <1>1, <2>1, <3>2 DEF Promotions
    <3>3. CASE ~(PromotionAnswer(q, NoTarget, 0) \/ promotion' = [promotion EXCEPT ![q].stage = "reread"])
      <4>1. PICK p \in PageIds :
               /\ NewPage(p)
               /\ pages' = [pages EXCEPT ![p] =
                    [revision |-> 1, text |-> promotion[q].text, origin |-> "promotion"]]
        BY <3>3 DEF CreatePromoted
      <4>2. pages[p].revision = 0 /\ pages'[p].revision = 1
        BY <4>1 DEF NewPage, Exists, NoPage, Inv, PagesInv
      <4> QED BY <1>2, <4>2
    <3> QED BY <3>1, <3>2, <3>3
  <2>2. PutRefused(editor.target, editor.revision) => PutRefused(editor.target, editor.revision)'
    BY <1>0, <1>2 DEF PutRefused, HasRow
  <2>3. ~stray' /\ inFlight # NoCall /\ call[inFlight].stage = "promote"
                /\ promotion'[inFlight].stage = "done" /\ promotion'[inFlight].target # NoTarget =>
          HasRow /\ row.target = promotion'[inFlight].target
    BY <1>0, <1>1, <2>1 DEF KnownInv, WriteKnown
  <2> QED BY <1>0, <1>2, <2>2, <2>3, DraftInvKept DEF writer
<1>3. CASE ~UNCHANGED <<pages, row>>
  <2>1. PICK p \in PageIds :
          /\ HasRow /\ row.target = NoTarget /\ row.text = promotion[q].text
          /\ NewPage(p)
          /\ row' = [row EXCEPT !.target = p, !.base = 1]
          /\ PromotionAnswer(q, p, 1)
    BY <1>3 DEF CreatePromoted, StillUnbound
  <2>2. row'.target = p /\ row'.text = row.text /\ p # NoTarget /\ HasRow'
    BY <2>1, Constants DEF Inv, RowInv, HasRow, NoRow
  <2>3. saved.target # p BY <2>1, Constants DEF RevisionInv, NewPage
  <2>4. ASSUME NEW r \in Promoters
        PROVE  promotion'[r] = promotion[r] \/ promotion'[r].target = p
    BY <1>1, <2>1 DEF PromotionAnswer, NoPromotion
  <2>5. HookInv' BY <1>0 DEF HookInv, HasChanges, Recovering
  <2>6. TurnInv' BY <1>0 DEF TurnInv, Working
  <2>7. AloneInv' BY <1>0 DEF AloneInv, Alone, HasChanges, Recovering
  <2>8. KnownInv'
    <3> SUFFICES ASSUME ~stray' PROVE RowKnown' /\ DraftKnown' /\ (inFlight # NoCall => WriteKnown(call[inFlight], promotion[inFlight]))'
      BY DEF KnownInv
    <3>1. RowKnown /\ DraftKnown /\ (inFlight # NoCall => WriteKnown(call[inFlight], promotion[inFlight]))
      BY <1>0 DEF KnownInv
    <3>2. editor.target = NoTarget BY <2>1, <3>1 DEF RowKnown
    <3>3. save.result # "saved" BY <2>1, <3>1 DEF RowKnown
    <3>4. RowKnown' BY <1>0, <2>1, <2>2, <2>3, <3>1, <3>2, <3>3 DEF RowKnown, Recovering
    <3>5. PutRefused(editor.target, editor.revision)'
      BY <1>0, <2>2, <3>2 DEF PutRefused
    <3>6. DraftKnown' BY <1>0, <2>2, <3>1, <3>5 DEF DraftKnown, HasChanges, Recovering
    <3>7. (inFlight # NoCall => WriteKnown(call[inFlight], promotion[inFlight]))'
      BY <1>0, <1>1, <2>1, <2>2, <2>4, <3>1, <3>5 DEF WriteKnown
    <3> QED BY <3>4, <3>6, <3>7
  <2> QED BY <2>5, <2>6, <2>7, <2>8
<1> QED BY <1>2, <1>3


\* A call that ends: the draft counts as stored when what it stored is the
\* row, and whatever waited behind it is alone only if it is a single write.
LEMMA FinishKeeps ==
  ASSUME AllInv, NEW c \in Calls, FinishCall(c)
  PROVE  DraftInv'
<1> USE DEF AllInv, DraftInv
<1> DEFINE k == Ended(call[c])
           a == promotion[c]
           after == AfterCall(k, a)
<1>1. /\ k.stage = "answered" \/ (k.stage = "promote" /\ a.stage = "done")
      /\ k.stage = call[c].stage /\ editor' = after
      /\ UNCHANGED <<pages, row, saved>> /\ stray' = (stray \/ crowded')
      /\ crowded' = \E w \in Calls :
           /\ Working(call'[w])
           /\ crowded \/ save # NoSave \/ \E v \in Calls \ {w} : Working(call'[v])
  BY FinishParts
<1>2. PICK waiting \in SUBSET Calls, writing \in SUBSET Calls :
        /\ waiting = {w \in Calls : call[w].stage = "waiting" /\ call[w].on = c}
        /\ writing = IF \/ after.paused \/ after.conflict \/ Ended(call[c]).result = "conflict"
                        \/ after.text = after.persisted
                     THEN {} ELSE waiting
        /\ call' = [w \in Calls |-> IF w \in writing THEN Put(after)
                                    ELSE IF w = c \/ w \in waiting THEN IdleCall ELSE call[w]]
        /\ IF writing = {} THEN inFlight' = NoCall ELSE inFlight' \in writing
  BY <1>1, FinishParts
<1>3. save' = IF save.stage = "waiting" /\ save.on = c
              THEN [save EXCEPT !.stage = "sent", !.on = NoCall,
                                !.target = after.target, !.revision = after.revision]
              ELSE save
  BY FinishParts
<1>4. /\ k.text = call[c].text
      /\ call[c].stage # "promote" => k.result = call[c].result
      /\ call[c].stage = "promote" => k.result = "saved"
  BY EndedFields
<1>5. /\ after \in Editors
      /\ after.text = editor.text /\ after.original = editor.original
      /\ after.candidate = editor.candidate
      /\ after.persisted = IF k.result = "saved" THEN call[c].text ELSE editor.persisted
      /\ after.conflict = (editor.conflict \/ (k.result = "conflict" /\ Active))
      /\ \/ after.target = editor.target /\ after.revision = editor.revision
         \/ a.target # NoTarget /\ after.target = a.target /\ after.revision = a.revision
  BY AfterCallFields
<1>6. call[c].stage = "answered" => after.target = editor.target /\ after.revision = editor.revision
  <2>1. call[c].stage = "answered" => a.target = NoTarget
    <3>1. NoPromotion.target = NoTarget BY DEF NoPromotion
    <3> QED BY <3>1 DEF Inv, StagesInv
  <2> QED BY <1>5, <2>1
<1> HIDE DEF k, after, a
<1>7. /\ Put(after).stage = "put" /\ Put(after).text = editor.text
      /\ Put(after).target = after.target /\ Put(after).revision = after.revision
  BY <1>5, PutType
<1>8. /\ \A w \in Calls : Working(call'[w]) <=> (w \in writing \/ (Working(call[w]) /\ w # c))
      /\ writing \subseteq waiting /\ c \notin waiting
      /\ \A w \in waiting : ~Working(call[w])
  BY <1>1, <1>2, <1>7, Ints DEF Working
<1>9. Working(call[c]) BY <1>1 DEF Working
<1>10. /\ save' = save
       \/ /\ save.stage = "waiting" /\ save'.stage = "sent" /\ save'.result = save.result
          /\ save'.text = save.text /\ save'.target = after.target
  BY <1>3, Ints DEF Requests
<1>11. HookInv'
  <2>1. HasChanges' = HasChanges /\ Recovering' = Recovering BY <1>1, <1>5 DEF HasChanges, Recovering
  <2>2. save # NoSave => ~editor'.conflict BY <1>1, <1>5 DEF HookInv, Active
  <2>3. editor'.text = editor.text /\ (editor.target # NoTarget => editor'.target # NoTarget)
    BY <1>1, <1>5
  <2>4. save'.target = after.target => save'.target = editor'.target BY <1>1
  <2> QED BY <1>10, <2>1, <2>2, <2>3, <2>4, Ints DEF HookInv
<1>12. crowded => crowded' \/ writing = {}
  BY <1>1, <1>8
<1>13. TurnInv'
  <2>1. CASE crowded'
    BY <1>1, <2>1 DEF TurnInv
  <2>2. CASE ~crowded' /\ ~crowded
    <3>1. c = inFlight /\ \A w \in Calls : Working(call'[w]) <=> w \in writing
      BY <1>8, <1>9, <2>2 DEF TurnInv
    <3>2. \A w, v \in writing : w = v BY <1>1, <2>2, <3>1
    <3> QED BY <1>2, <2>2, <3>1, <3>2, Ints DEF TurnInv
  <2>3. CASE ~crowded' /\ crowded
    <3>1. \A w \in Calls : ~Working(call'[w]) BY <1>1, <2>3
    <3>2. inFlight' = NoCall BY <1>2, <1>12, <2>3
    <3> QED BY <2>3, <3>1, <3>2, Ints DEF TurnInv
  <2> QED BY <2>1, <2>2, <2>3
\* The next write that is alone.
<1>14. ASSUME ~crowded', inFlight' # NoCall
       PROVE  /\ ~crowded /\ inFlight = c /\ save = NoSave /\ save' = NoSave
              /\ call'[inFlight'] = Put(after)
              /\ after.text # after.persisted /\ ~after.conflict
  <2>1. writing # {} /\ inFlight' \in writing BY <1>2, <1>14
  <2>2. ~crowded BY <1>12, <1>14, <2>1
  <2>3. inFlight = c BY <1>9, <2>2 DEF TurnInv
  <2>4. Working(call'[inFlight']) /\ inFlight' \in Calls BY <1>8, <2>1
  <2>5. save = NoSave BY <1>1, <1>14, <2>4
  <2>6. save' = NoSave BY <1>10, <2>5, Ints
  <2> QED BY <1>2, <2>1, <2>2, <2>3, <2>5, <2>6
<1>15. AloneInv'
  <2>1. ASSUME ~crowded', inFlight' # NoCall
        PROVE  HasChanges /\ ~Recovering
    BY <1>14, <2>1, Ints DEF AloneInv, Alone
  <2> QED BY <1>1, <1>5, <1>7, <1>14, <2>1, Ints DEF AloneInv, Alone, HasChanges, Recovering
<1>16. KnownInv'
  <2> SUFFICES ASSUME ~stray' PROVE RowKnown' /\ DraftKnown' /\ (inFlight # NoCall => WriteKnown(call[inFlight], promotion[inFlight]))'
    BY DEF KnownInv
  <2>1. ~stray /\ ~crowded /\ ~crowded' /\ inFlight = c /\ c # NoCall
    BY <1>1, <1>9, Ints DEF TurnInv
  <2>2. RowKnown /\ DraftKnown /\ WriteKnown(call[c], a)
    BY <2>1 DEF KnownInv, a
  <2>3. /\ HasChanges /\ editor.text # editor.persisted /\ ~Recovering /\ ~editor.conflict
        /\ save.stage \in {"idle", "waiting"} /\ editor.text >= call[c].text
        /\ save.stage = "waiting" /\ editor.text # save.text => call[c].text # editor.text
        /\ save.result = "none"
    BY <2>1, Ints DEF AloneInv, Alone, HookInv
  <2>4. k.result = "saved" => HasRow /\ row.text = call[c].text
    BY <1>1, <1>4, <2>2 DEF WriteKnown
  <2>5. \/ after.target = editor.target /\ after.revision = editor.revision
        \/ HasRow /\ row.target = after.target /\ row.text = call[c].text /\ after.target # NoTarget
    BY <1>1, <1>4, <1>5, <1>6, <2>2, <2>4 DEF WriteKnown
  <2>6. RowKnown'
    BY <1>1, <1>5, <1>10, <2>2, <2>3, <2>5 DEF RowKnown, Recovering, HasRow
  <2>7. after.target = saved.target \/ saved.target = NoTarget => editor.text >= saved.text
    BY <2>2, <2>3, <2>5, Ints DEF DraftKnown, RowKnown
  <2>8. DraftKnown'
    <3>1. HasChanges' /\ ~Recovering' BY <1>1, <1>5, <2>3 DEF HasChanges, Recovering
    <3>2. editor'.text = editor'.persisted => editor'.text = row.text /\ (save.stage = "waiting" => editor.text = save.text)
      BY <1>1, <1>5, <2>3, <2>4
    <3>3. save'.stage \in {"waiting", "sent"} => save.stage = "waiting" /\ save'.text = save.text
      BY <1>10, <2>3
    <3>4. editor'.conflict => PutRefused(editor.target, editor.revision)'
      <4>1. editor'.conflict => k.result = "conflict" BY <1>1, <1>5, <2>3
      <4>2. k.result = "conflict" =>
              /\ PutRefused(editor.target, editor.revision)
              /\ after.target = editor.target /\ after.revision = editor.revision
        BY <1>1, <1>4, <1>6, <2>2 DEF WriteKnown
      <4> QED BY <1>1, <4>1, <4>2 DEF PutRefused, HasRow
    <3> QED BY <1>1, <1>5, <2>7, <3>1, <3>2, <3>3, <3>4 DEF DraftKnown
  <2>9. (inFlight # NoCall => WriteKnown(call[inFlight], promotion[inFlight]))'
    BY <1>1, <1>5, <1>7, <1>14, <2>1, <2>7 DEF WriteKnown
  <2> QED BY <2>6, <2>8, <2>9
<1> QED BY <1>11, <1>13, <1>15, <1>16


-----------------------------------------------------------------------------
(* Save and discard.                                                       *)

LEMMA BeginSaveKeeps ==
  ASSUME AllInv, BeginSave
  PROVE  DraftInv'
<1> USE DEF AllInv, DraftInv
<1>0. /\ save = NoSave /\ HasChanges /\ ~Recovering /\ save' = Prepared(editor.text)
      /\ editor' = [editor EXCEPT !.paused = TRUE, !.conflict = FALSE]
      /\ UNCHANGED <<pages, row, saved, stray, inFlight, call, crowded, promotion>>
  BY DEF BeginSave, stored, writer
<1>1. /\ editor'.text = editor.text /\ editor'.original = editor.original
      /\ editor'.persisted = editor.persisted /\ editor'.candidate = editor.candidate
      /\ editor'.target = editor.target /\ editor'.revision = editor.revision /\ ~editor'.conflict
  BY <1>0, Ints DEF Editors
<1>2. /\ save'.text = editor.text /\ save'.target = editor.target /\ save'.result = "none"
      /\ save'.stage = IF inFlight = NoCall THEN "sent" ELSE "waiting"
  BY <1>0 DEF Prepared, IdleCall
<1>3. HookInv' BY <1>0, <1>1, <1>2, Ints DEF HookInv, HasChanges, Recovering
<1>4. TurnInv' BY <1>0 DEF TurnInv, Working
<1>5. AloneInv' BY <1>0, <1>1, <1>2 DEF AloneInv, Alone, HasChanges, Recovering
<1>6. KnownInv'
  <2> SUFFICES ASSUME ~stray' PROVE RowKnown' /\ DraftKnown' /\ (inFlight # NoCall => WriteKnown(call[inFlight], promotion[inFlight]))'
    BY DEF KnownInv
  <2>1. RowKnown /\ DraftKnown /\ (inFlight # NoCall => WriteKnown(call[inFlight], promotion[inFlight]))
    BY <1>0 DEF KnownInv
  <2>2. RowKnown' BY <1>0, <1>1, <1>2, <2>1 DEF RowKnown, HasRow, Recovering
  <2>3. DraftKnown' BY <1>0, <1>1, <1>2, <2>1 DEF DraftKnown, HasChanges, Recovering
  <2>4. (inFlight # NoCall => WriteKnown(call[inFlight], promotion[inFlight]))'
    BY <1>0, <1>1, <2>1 DEF WriteKnown, HasRow, PutRefused
  <2> QED BY <2>2, <2>3, <2>4
<1> QED BY <1>3, <1>4, <1>5, <1>6

\* A Save that was not stored, or whose answer is lost, leaves what is known.
LEMMA UnsavedKeeps ==
  ASSUME AllInv, save.stage \in {"sent", "answered"}, save # NoSave,
         UNCHANGED <<pages, row, saved, editor, writer, promotion>>, stray' = stray,
         save'.stage = "answered", save'.result \notin {"saved", "none"}, save'.text = save.text
  PROVE  DraftInv'
<1> USE DEF AllInv, DraftInv, writer
<1>1. save' # NoSave BY Ints
<1>2. HookInv' BY <1>1 DEF HookInv, HasChanges, Recovering
<1>3. TurnInv' BY DEF TurnInv, Working
<1>4. AloneInv' BY DEF AloneInv, Alone
<1>5. KnownInv'
  <2> SUFFICES ASSUME ~stray' PROVE RowKnown' /\ DraftKnown' /\ (inFlight # NoCall => WriteKnown(call[inFlight], promotion[inFlight]))'
    BY DEF KnownInv
  <2>1. RowKnown /\ DraftKnown /\ (inFlight # NoCall => WriteKnown(call[inFlight], promotion[inFlight]))
    BY DEF KnownInv
  <2>2. RowKnown' BY <2>1 DEF RowKnown, HasRow, Recovering
  <2>3. DraftKnown' BY <2>1 DEF DraftKnown, HasChanges, Recovering, PutRefused, HasRow
  <2>4. (inFlight # NoCall => WriteKnown(call[inFlight], promotion[inFlight]))'
    BY <2>1 DEF WriteKnown, HasRow, PutRefused
  <2> QED BY <2>2, <2>3, <2>4
<1> QED BY <1>2, <1>3, <1>4, <1>5

\* A Save that is stored takes the draft's row, or the row of its Page.
LEMMA SavedKeeps ==
  ASSUME AllInv, save.stage = "sent", NEW p \in PageIds, CreateSaved(save, p) \/ UpdateSaved(save, p),
         UNCHANGED <<editor, writer, promotion>>, stray' = stray,
         save'.stage = "answered", save'.result = "saved", save'.text = save.text, save'.target = p
  PROVE  DraftInv'
<1> USE DEF AllInv, DraftInv, writer
<1>0. save # NoSave /\ save' # NoSave BY Ints
<1>1. p # NoTarget /\ saved'.target = p /\ saved'.text = save.text
  BY Constants DEF CreateSaved, UpdateSaved
<1>2. HookInv' BY <1>0, <1>1 DEF HookInv, HasChanges, Recovering
<1>3. TurnInv' BY DEF TurnInv, Working
<1>4. ~Alone /\ ~Alone' BY DEF AloneInv, Alone
<1>5. AloneInv' BY <1>4 DEF AloneInv
<1>6. KnownInv'
  <2> SUFFICES ASSUME ~stray' PROVE RowKnown' /\ DraftKnown' /\ inFlight' = NoCall
    BY DEF KnownInv
  <2>1. RowKnown /\ DraftKnown BY DEF KnownInv
  <2>2. inFlight' = NoCall BY <1>4 DEF Alone, TurnInv
  <2>3. ~Recovering /\ ~editor.conflict /\ editor.text >= save.text
    BY <1>0 DEF HookInv
  <2>4. HasRow' => row' = row /\ HasRow /\ row.target \notin {NoTarget, p}
    <3>1. CASE CreateSaved(save, p)
      <4>1. row' = row \/ row' = NoRow BY <3>1 DEF CreateSaved, WithoutDraft
      <4>2. row' = row => row.target # NoTarget \/ row = NoRow BY <3>1 DEF CreateSaved, WithoutDraft
      <4>3. row.target # NoTarget => row.target # p
        BY <3>1 DEF CreateSaved, NewPage, Inv, RowInv
      <4> QED BY <4>1, <4>2, <4>3 DEF HasRow
    <3>2. CASE UpdateSaved(save, p)
      <4>1. row' = row \/ row' = NoRow BY <3>2 DEF UpdateSaved, WithoutRow
      <4>2. row' = row => row.target # p \/ row = NoRow BY <3>2 DEF UpdateSaved, WithoutRow
      <4>3. save.target # NoTarget BY <3>2, <1>1 DEF UpdateSaved
      <4>4. HasRow => row.target # NoTarget BY <2>1, <4>3 DEF RowKnown, HookInv
      <4> QED BY <4>1, <4>2, <4>4 DEF HasRow
    <3> QED BY <3>1, <3>2
  <2>5. ~HasRow' => row'.target = NoTarget BY DEF HasRow, NoRow
  <2>6. RowKnown' BY <1>1, <2>1, <2>3, <2>4, <2>5 DEF RowKnown, Recovering
  <2>7. DraftKnown' BY <1>1, <2>1, <2>3 DEF DraftKnown, HasChanges, Recovering
  <2> QED BY <2>2, <2>6, <2>7
<1> QED BY <1>2, <1>3, <1>5, <1>6

LEMMA SaveAnswerFields ==
  ASSUME Inv, NEW result, NEW target, NEW revision, SaveAnswer(result, target, revision)
  PROVE  /\ save'.stage = "answered" /\ save'.result = result /\ save'.text = save.text
         /\ save'.target = target
BY DEF SaveAnswer, Inv, SaveInv, Requests

\* Only the Save's request and history change, and the row is astray.
LEMMA StrayKeeps ==
  ASSUME AllInv, UNCHANGED <<editor, writer>>, stray' = TRUE,
         \/ save' = save
         \/ /\ save.stage = "sent" /\ save'.stage = "answered"
            /\ save'.result \notin {"saved", "none"} /\ save'.text = save.text
  PROVE  DraftInv'
<1> USE DEF AllInv, DraftInv, writer
<1>1. HookInv' BY Ints DEF HookInv, HasChanges, Recovering
<1>2. TurnInv' BY DEF TurnInv, Working
<1>3. AloneInv' BY DEF AloneInv, Alone, HasChanges, Recovering
<1>4. KnownInv' BY DEF KnownInv
<1> QED BY <1>1, <1>2, <1>3, <1>4

LEMMA ServeSaveKeeps ==
  ASSUME AllInv, ServeSave \/ LoseSave
  PROVE  DraftInv'
<1>0. /\ save.stage \in {"sent", "answered"} /\ save # NoSave
      /\ UNCHANGED <<editor, writer, promotion>> /\ Inv
  BY Ints DEF ServeSave, LoseSave, AllInv
<1>1. ASSUME NEW result \in {"session_ended", "refused", "failed"}, NEW target, NEW revision,
             SaveAnswer(result, target, revision), UNCHANGED <<pages, row, saved, stray>>
      PROVE  DraftInv'
  BY <1>0, <1>1, SaveAnswerFields, UnsavedKeeps
<1>2. ASSUME save.stage = "sent", NEW p \in PageIds, CreateSaved(save, p) \/ UpdateSaved(save, p),
             SaveAnswer("saved", p, pages'[p].revision), stray' = stray
      PROVE  DraftInv'
  BY <1>0, <1>2, SaveAnswerFields, SavedKeeps
<1>3. ASSUME save.stage = "sent", CreateRefused(save), SaveAnswer("refused", NoTarget, 0), stray' = (stray \/ row' # row)
      PROVE  DraftInv'
  <2>1. stray \in BOOLEAN BY <1>0 DEF Inv, RestInv
  <2>2. CASE row' = row
    <3>1. stray' = stray BY <1>3, <2>1, <2>2
    <3>2. UNCHANGED <<pages, saved>> BY <1>3 DEF CreateRefused
    <3> QED BY <1>1, <1>3, <2>2, <3>1, <3>2
  <2>3. CASE row' # row
    <3>1. stray' = TRUE BY <1>3, <2>3
    <3> QED BY <1>0, <1>3, <3>1, SaveAnswerFields, StrayKeeps
  <2> QED BY <2>2, <2>3
<1>4. CASE ServeSave BY <1>1, <1>2, <1>3, <1>4 DEF ServeSave
<1>5. CASE LoseSave BY <1>1, <1>5 DEF LoseSave, stored
<1> QED BY <1>4, <1>5

\* With no row and no write on its way, nothing is left to be wrong about.
LEMMA NothingIsKnown ==
  ASSUME AllInv, AllGone, UNCHANGED <<row, saved, writer, promotion>>,
         ~HasChanges', ~Recovering', ~editor'.conflict, save'.result # "saved",
         editor'.target = NoTarget /\ saved.target # NoTarget => row.target # saved.target
  PROVE  KnownInv'
<1> USE DEF AllInv, DraftInv, writer
<1> SUFFICES ASSUME ~stray' PROVE RowKnown' /\ DraftKnown' /\ (inFlight # NoCall => WriteKnown(call[inFlight], promotion[inFlight]))'
  BY DEF KnownInv
<1>1. \A c \in Calls : ~Working(call[c]) BY DEF AllGone
<1>2. RowKnown' BY DEF AllGone, RowKnown, HasRow
<1>3. DraftKnown' BY DEF DraftKnown
<1>4. inFlight # NoCall => ~Working(call[inFlight]) BY <1>1, Ints
<1>5. (inFlight # NoCall => WriteKnown(call[inFlight], promotion[inFlight]))'
  BY <1>4 DEF WriteKnown, Working
<1> QED BY <1>2, <1>3, <1>5

LEMMA AnswerSaveKeeps ==
  ASSUME AllInv, AnswerSave
  PROVE  DraftInv'
<1> USE DEF AllInv, DraftInv, writer
<1>0. /\ save.stage = "answered" /\ save # NoSave /\ save' = NoSave
      /\ UNCHANGED <<pages, row, saved, writer, promotion>>
      /\ stray' = (stray /\ ~(save.result = "saved" /\ AllGone))
  BY Ints DEF AnswerSave
<1>1. HasChanges /\ ~Recovering BY <1>0 DEF HookInv
<1>2. ~Alone /\ ~Alone' BY <1>0 DEF AloneInv, Alone
<1>3. AloneInv' BY <1>2 DEF AloneInv
<1>4. TurnInv'
  <2>1. crowded => stray' BY <1>0 DEF TurnInv, AllGone
  <2> QED BY <1>0, <2>1 DEF TurnInv
<1>5. CASE save.result = "saved"
  <2>1. /\ editor'.target = save.target /\ editor'.text = editor'.original
        /\ editor'.candidate = editor.candidate /\ ~editor'.conflict
    BY <1>0, <1>5, Ints DEF AnswerSave, Editors
  <2>2. ~HasChanges' /\ ~Recovering' /\ editor'.target # NoTarget
    BY <1>0, <1>1, <1>5, <2>1 DEF HasChanges, Recovering, HookInv
  <2>3. HookInv' BY <1>0, <2>2, Ints DEF HookInv
  <2>4. KnownInv'
    <3>1. CASE AllGone BY <1>0, <2>1, <2>2, <3>1, Ints, NothingIsKnown
    <3>2. CASE ~AllGone
      <4> SUFFICES ASSUME ~stray' PROVE RowKnown' /\ DraftKnown' /\ inFlight' = NoCall
        BY DEF KnownInv
      <4>1. RowKnown /\ ~stray BY <1>0, <3>2 DEF KnownInv
      <4>2. inFlight' = NoCall BY <1>0, <1>2, <4>1 DEF Alone, TurnInv
      <4>3. RowKnown' BY <1>0, <1>5, <2>1, <2>2, <4>1, Ints DEF RowKnown, HasRow
      <4>4. DraftKnown' BY <2>1, <2>2 DEF DraftKnown
      <4> QED BY <4>2, <4>3, <4>4
    <3> QED BY <3>1, <3>2
  <2> QED BY <1>3, <1>4, <2>3, <2>4
<1>6. CASE save.result # "saved"
  <2>1. /\ editor'.text = editor.text /\ editor'.original = editor.original
        /\ editor'.persisted = editor.persisted /\ editor'.candidate = editor.candidate
        /\ editor'.target = editor.target /\ editor'.revision = editor.revision /\ ~editor'.conflict
        /\ stray' = stray
    <3>1. stray \in BOOLEAN BY DEF Inv, RestInv
    <3> QED BY <1>0, <1>6, <3>1, Ints DEF AnswerSave, Editors
  <2>2. HookInv' BY <1>0, <1>1, <2>1, Ints DEF HookInv, HasChanges, Recovering
  <2>3. KnownInv'
    <3> SUFFICES ASSUME ~stray' PROVE RowKnown' /\ DraftKnown' /\ inFlight' = NoCall
      BY DEF KnownInv
    <3>1. RowKnown /\ DraftKnown BY <2>1 DEF KnownInv
    <3>2. inFlight' = NoCall BY <1>0, <1>2, <2>1 DEF Alone, TurnInv
    <3>3. RowKnown' BY <1>0, <1>6, <2>1, <3>1, Ints DEF RowKnown, HasRow, Recovering
    <3>4. DraftKnown' BY <1>0, <2>1, <3>1, Ints DEF DraftKnown, HasChanges, Recovering
    <3> QED BY <3>2, <3>3, <3>4
  <2> QED BY <1>3, <1>4, <2>2, <2>3
<1> QED BY <1>5, <1>6

LEMMA ServeDiscardKeeps ==
  ASSUME AllInv, ServeDiscard
  PROVE  DraftInv'
<1>0. UNCHANGED <<pages, saved, editor, writer, promotion, save>> BY DEF ServeDiscard
<1>1. CASE stray' = TRUE BY <1>0, <1>1, StrayKeeps
<1>2. CASE UNCHANGED <<row, stray>>
  <2>1. SameDraft BY <1>0 DEF SameDraft
  <2>2. PutRefused(editor.target, editor.revision) => PutRefused(editor.target, editor.revision)'
    BY <1>0, <1>2 DEF PutRefused, HasRow
  <2>3. ~stray' /\ inFlight # NoCall /\ call[inFlight].stage = "promote"
                /\ promotion'[inFlight].stage = "done" /\ promotion'[inFlight].target # NoTarget =>
          HasRow /\ row.target = promotion'[inFlight].target
    BY <1>0, <1>2 DEF AllInv, DraftInv, KnownInv, WriteKnown
  <2> QED BY <1>0, <1>2, <2>1, <2>2, <2>3, DraftInvKept
<1> QED BY <1>1, <1>2 DEF ServeDiscard

LEMMA LateKeeps ==
  ASSUME AllInv, NEW l \in late, ServeLate(l)
  PROVE  DraftInv'
<1>1. UNCHANGED <<editor, writer, save>> /\ stray' = TRUE BY DEF ServeLate
<1> QED BY <1>1, StrayKeeps

LEMMA AnswerDiscardKeeps ==
  ASSUME AllInv, AnswerDiscard
  PROVE  DraftInv'
<1> USE DEF AllInv, DraftInv, writer
<1>0. /\ UNCHANGED <<pages, row, saved, writer, promotion, save>>
      /\ stray' = (stray /\ ~(discard.result = "saved" /\ AllGone /\ ~HasChanges))
      /\ stray \in BOOLEAN
  BY DEF AnswerDiscard, Inv, RestInv
<1>1. CASE discard.result # "saved"
  <2>1. SameDraft BY <1>1, Ints DEF AnswerDiscard, SameDraft, Editors
  <2>2. stray' = stray BY <1>0, <1>1
  <2>3. PutRefused(editor.target, editor.revision) => PutRefused(editor.target, editor.revision)'
    BY <1>0, <2>1 DEF PutRefused, HasRow, SameDraft
  <2>4. ~stray' /\ inFlight # NoCall /\ call[inFlight].stage = "promote"
                /\ promotion'[inFlight].stage = "done" /\ promotion'[inFlight].target # NoTarget =>
          HasRow /\ row.target = promotion'[inFlight].target
    BY <1>0, <2>2 DEF KnownInv, WriteKnown
  <2> QED BY <1>0, <2>1, <2>2, <2>3, <2>4, DraftInvKept
<1>2. CASE discard.result = "saved"
  <2>1. /\ editor'.text = editor.text /\ editor'.original = editor.original
        /\ editor'.persisted = Nothing /\ editor'.candidate = Nothing
        /\ editor'.target = editor.target /\ editor'.revision = editor.revision /\ ~editor'.conflict
    BY <1>2, Ints DEF AnswerDiscard, Editors
  <2>2. HookInv' BY <1>0, <2>1 DEF HookInv, HasChanges, Recovering
  <2>3. TurnInv'
    <3>1. crowded => stray' BY <1>0 DEF TurnInv, AllGone
    <3> QED BY <1>0, <3>1 DEF TurnInv
  <2>4. AloneInv' BY <1>0, <2>1, Ints DEF AloneInv, Alone, HasChanges, Recovering
  <2>5. KnownInv'
    <3>1. CASE AllGone /\ ~HasChanges
      <4>1. save'.result # "saved" BY <1>0, <3>1, Ints DEF HookInv
      <4>2. row.target = NoTarget BY <3>1 DEF AllGone, HasRow, NoRow
      <4> QED BY <1>0, <2>1, <3>1, <4>1, <4>2, NothingIsKnown DEF HasChanges, Recovering
    <3>2. CASE ~(AllGone /\ ~HasChanges)
      <4> SUFFICES ASSUME ~stray' PROVE RowKnown' /\ DraftKnown' /\ (inFlight # NoCall => WriteKnown(call[inFlight], promotion[inFlight]))'
        BY DEF KnownInv
      <4>1. RowKnown /\ DraftKnown /\ (inFlight # NoCall => WriteKnown(call[inFlight], promotion[inFlight])) /\ ~stray
        BY <1>0, <3>2 DEF KnownInv
      <4>2. RowKnown' BY <1>0, <2>1, <4>1 DEF RowKnown, HasRow, Recovering
      <4>3. DraftKnown' BY <1>0, <2>1, <4>1, Ints DEF DraftKnown, HasChanges, Recovering, HookInv
      <4>4. (inFlight # NoCall => WriteKnown(call[inFlight], promotion[inFlight]))'
        BY <1>0, <2>1, <4>1 DEF WriteKnown, HasRow, PutRefused
      <4> QED BY <4>2, <4>3, <4>4
    <3> QED BY <3>1, <3>2
  <2> QED BY <2>2, <2>3, <2>4, <2>5
<1> QED BY <1>1, <1>2


-----------------------------------------------------------------------------
(* The theorems.                                                           *)

LEMMA DraftInvStays ==
  ASSUME AllInv, [Next]_vars
  PROVE  DraftInv'
<1>1. CASE User
  <2>1. CASE Type BY <2>1, TypeKeeps
  <2>2. CASE Restore BY <2>2, RestoreKeeps
  <2>3. CASE EndSession \/ Reauthenticate BY <2>3, HarmlessSteps
  <2>4. CASE Reopen BY <2>4, ReopenKeeps
  <2>5. CASE OtherTabPromotes BY <2>5, ReadKeeps, Constants
  <2>6. CASE BeginSave BY <2>6, BeginSaveKeeps
  <2>7. CASE \E p \in PageIds : ChangePage(p) BY <2>7, ChangePageKeeps
  <2> QED BY <1>1, <2>1, <2>2, <2>3, <2>4, <2>5, <2>6, <2>7 DEF User
<1>2. CASE Losses
  <2>1. CASE LoseSave BY <2>1, ServeSaveKeeps
  <2>2. CASE LoseDiscard BY <2>2, HarmlessSteps
  <2>3. CASE \E c \in Calls : LosePut(c) BY <2>3, PutKeeps
  <2>4. CASE \E c \in Calls : LosePromotion(c) BY <2>4, LosePromotionKeeps
  <2> QED BY <1>2, <2>1, <2>2, <2>3, <2>4 DEF Losses
<1>3. CASE Machine
  <2>1. CASE OpenPromoted BY <2>1, OpenPromotedKeeps
  <2>2. CASE \E c \in Calls : StartCall(c) BY <2>2, StartKeeps
  <2>3. CASE \E c \in Calls : ServePut(c) BY <2>3, PutKeeps
  <2>4. CASE \E c \in Calls : FinishCall(c) BY <2>4, FinishKeeps
  <2>5. CASE \E q \in Promoters : ReadPromotion(q) \/ RereadPromotion(q) \/ ForgetPromotion(q)
    BY <2>5, ReadKeeps
  <2>6. CASE \E q \in Promoters : CreatePromoted(q) BY <2>6, CreatePromotedKeeps
  <2>7. CASE ServeSave BY <2>7, ServeSaveKeeps
  <2>8. CASE AnswerSave BY <2>8, AnswerSaveKeeps
  <2>9. CASE BeginDiscard BY <2>9, HarmlessSteps
  <2>10. CASE ServeDiscard BY <2>10, ServeDiscardKeeps
  <2>11. CASE AnswerDiscard BY <2>11, AnswerDiscardKeeps
  <2> QED BY <1>3, <2>1, <2>2, <2>3, <2>4, <2>5, <2>6, <2>7, <2>8, <2>9, <2>10, <2>11 DEF Machine
<1>4. CASE \E l \in late : ServeLate(l) BY <1>4, LateKeeps
<1>5. CASE UNCHANGED vars BY <1>5, HarmlessSteps
<1> QED BY <1>1, <1>2, <1>3, <1>4, <1>5 DEF Next

LEMMA AllInvStays == AllInv /\ [Next]_vars => AllInv'
BY InvStays, FreshInvStays, RevisionInvStays, DraftInvStays DEF AllInv

LEMMA InitAllInv == Init => AllInv
<1> SUFFICES ASSUME Init PROVE AllInv
  OBVIOUS
<1>1. Inv BY InitInv
<1> DEFINE p == IF Exists(1) THEN 1 ELSE NoTarget
<1>2. /\ editor = Opened(p, 0) /\ row = NoRow /\ save = NoSave /\ inFlight = NoCall /\ late = {}
      /\ call = [c \in Calls |-> IdleCall] /\ promotion = [q \in Promoters |-> NoPromotion]
      /\ saved = [target |-> NoTarget, text |-> Original] /\ crowded = FALSE /\ stray = FALSE
      /\ counts.texts = 0
  BY DEF Init
<1>3. /\ IdleCall.text = Nothing /\ IdleCall.target = NoTarget /\ IdleCall.stage = "idle"
      /\ NoSave = IdleCall /\ IdleCall.result = "none"
      /\ NoPromotion.text = Nothing /\ NoPromotion.target = NoTarget
      /\ NoRow.text = Nothing /\ NoRow.target = NoTarget
  BY DEF IdleCall, NoSave, NoPromotion, NoRow
<1>4. /\ \A x \in PageIds : pages[x].text = Original
      /\ p \in Targets /\ (p # NoTarget => p \in PageIds)
  <2>1. 1 \in PageIds BY ConstantAssumption DEF PageIds
  <2>2. \A x \in PageIds : pages[x].text = Original
    <3>1. CASE pages = [x \in PageIds |-> NoPage] BY <3>1 DEF NoPage
    <3>2. CASE pages = [[x \in PageIds |-> NoPage] EXCEPT ![1] =
                          [revision |-> 1, text |-> Original, origin |-> "loaded"]]
      BY <2>1, <3>2 DEF NoPage
    <3> QED BY <3>1, <3>2 DEF Init
  <2> QED BY <2>1, <2>2, Constants
<1>5. /\ editor.target = p /\ editor.text = editor.original /\ editor.original = Original /\ ~editor.conflict
      /\ editor.revision = IF p = NoTarget THEN 0 ELSE pages[p].revision
      /\ editor.persisted = Nothing /\ editor.candidate = Nothing
  BY <1>1, <1>2, <1>3, <1>4, OpenedFields
<1> HIDE DEF p
<1>6. FreshInv
  <2>1. Original <= counts.texts /\ Nothing <= counts.texts BY <1>2, Numbers
  <2> QED BY <1>2, <1>3, <1>4, <1>5, <2>1 DEF FreshInv, Fresh
<1>7. RevisionInv
  <2>1. \A x \in PageIds : pages[x].revision \in Nat BY <1>1 DEF Inv, PagesInv
  <2> QED BY <1>2, <1>3, <1>4, <1>5, <2>1 DEF RevisionInv, Current
<1>8. DraftInv
  BY <1>2, <1>3, <1>5, ConstantAssumption
     DEF DraftInv, HookInv, TurnInv, AloneInv, Alone, KnownInv, RowKnown, DraftKnown, Working,
         HasChanges, Recovering, HasRow
<1> QED BY <1>1, <1>6, <1>7, <1>8 DEF AllInv

\* Whatever the user, other tabs and lost replies do, the editor calls a
\* draft recoverable only while the row or the saved Page has that text,
\* unless a request has changed the row that the editor does not wait for.
THEOREM RecoverableDraftsAreStored == Spec => []RecoverableIsStored
<1>1. AllInv => RecoverableIsStored
  BY DEF AllInv, DraftInv, KnownInv, DraftKnown, RecoverableIsStored, Recoverable, Active
<1> QED BY <1>1, InitAllInv, AllInvStays, PTL DEF Spec

\* A write that a Save waited for, and every write before it, never leaves an
\* autosave older than the saved Page beside it.
THEOREM NoOlderCopyReturns == Spec => []NoOlderCopy
<1>1. AllInv => NoOlderCopy
  BY DEF AllInv, DraftInv, KnownInv, RowKnown, NoOlderCopy, HasRow
<1> QED BY <1>1, InitAllInv, AllInvStays, PTL DEF Spec

\* The conflict that stops the writer is one the server would answer again.
THEOREM ConflictsAreReal == Spec => []ConflictIsReal
<1>1. AllInv => ConflictIsReal
  BY DEF AllInv, DraftInv, KnownInv, DraftKnown, ConflictIsReal
<1> QED BY <1>1, InitAllInv, AllInvStays, PTL DEF Spec

=============================================================================
