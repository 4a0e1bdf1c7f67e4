------------------------- MODULE TenantErasureProofs -------------------------
(***************************************************************************)
(* What a finished erasure of a tenant leaves, for any documents, writers  *)
(* and erasures.                                                           *)
(*                                                                         *)
(* Once the row of the tenant is gone no document is claimed, selected or  *)
(* recorded, so what is on its way can only become less, and points come   *)
(* from it alone.  The second sweep counts after the rows went.            *)
(***************************************************************************)
EXTENDS TenantErasure, TLAPS

Swept  == {"redrop", "finish", "done"}
Bare   == ~tenant => access = {} /\ \A d \in Docs : row[d] = "none"
OwnWay ==
    /\ \A d \in Docs : upload[d] \in {"stored", "recorded"} => d \in Legacy
    /\ \A w \in Drains : Busy(w) => attempt[w].doc \in Legacy

SagaOK(e) ==
    /\ saga[e] \in Swept \cup {"recount"} => ~tenant
    /\ saga[e] \in Swept => OnItsWay \subseteq underway[e]
    /\ saga[e] \in {"finish", "done"} => points \subseteq underway[e]
    /\ audit[e] = "closed" => saga[e] = "done"

IInv == TypeOK /\ Bare /\ OwnWay /\ \A e \in Erasers : SagaOK(e)

-----------------------------------------------------------------------------
\* The types.

\* The erasures keep the types.
LEMMA EraseTypes ==
    ASSUME TypeOK, NEW e \in Erasers, Erase(e) PROVE TypeOK'
<1> USE DEF TypeOK, storeVars, uploadVars, attemptVars, Steps
<1>1. CASE BeginErasure(e) BY <1>1 DEF BeginErasure, Goes
<1>2. CASE Revoke(e) BY <1>2 DEF Revoke, Goes
<1>3. CASE Count(e) BY <1>3 DEF Count, Goes
<1>4. CASE DropPoints(e) BY <1>4 DEF DropPoints, Goes
<1>5. CASE List(e) BY <1>5 DEF List, Goes
<1>6. CASE DeleteObject(e) BY <1>6 DEF DeleteObject
<1>7. CASE DeleteRows(e) BY <1>7 DEF DeleteRows, Goes, Statuses
<1>8. CASE Recount(e) BY <1>8 DEF Recount, Goes, OnItsWay
<1>9. CASE FinishErasure(e) BY <1>9 DEF FinishErasure, Goes
<1>10. CASE EraseFails(e) BY <1>10 DEF EraseFails, Goes
<1> QED BY <1>1, <1>2, <1>3, <1>4, <1>5, <1>6, <1>7, <1>8, <1>9, <1>10 DEF Erase

\* So do the uploads.
LEMMA BringTypes ==
    ASSUME TypeOK, OwnWay, NEW d \in Docs, Bring(d) PROVE TypeOK'
<1> USE DEF TypeOK, attemptVars, sagaVars, Upload, Statuses
<1>1. CASE LetIn(d) BY <1>1 DEF LetIn
<1>2. CASE Mint(d) BY <1>2 DEF Mint, InsertRow
<1>3. CASE Put(d) BY <1>3 DEF Put
<1>4. CASE Store(d) BY <1>4 DEF Store
<1>5. CASE Record(d) BY <1>5 DEF Record, InsertRow
<1>6. CASE Publish(d) BY <1>6 DEF Publish, OwnWay
<1>7. CASE UploadFails(d) BY <1>7 DEF UploadFails
<1> QED BY <1>1, <1>2, <1>3, <1>4, <1>5, <1>6, <1>7 DEF Bring

\* An attempt that is not idle is at a document.
LEMMA BusyIsAt ==
    ASSUME TypeOK, NEW w \in Writers, Busy(w)
    PROVE  /\ attempt[w].doc \in Docs
           /\ \A s \in {"claimed", "fetched", "cleared", "written"} :
                 [attempt[w] EXCEPT !.step = s] \in Attempt
BY DEF TypeOK, Busy, Attempt, Idle

\* So do the writers.
LEMMA WriteTypes ==
    ASSUME ErasureAssumption, TypeOK, OwnWay, NEW w \in Writers, Write(w) PROVE TypeOK'
<1> USE DEF TypeOK, storeVars, uploadVars, attemptVars, sagaVars
<1> DEFINE Four == {"claimed", "fetched", "cleared", "written"}
<1>0. /\ Idle \in Attempt
      /\ \A d \in Docs : At("claimed", d) \in Attempt
    BY DEF Attempt, At, Idle
<1>b. Busy(w) => /\ attempt[w].doc \in Docs
                 /\ \A s \in Four : [attempt[w] EXCEPT !.step = s] \in Attempt
    BY BusyIsAt
<1>m. ASSUME NEW from, NEW to \in Four, Moves(w, from, to), points' \subseteq Docs
      PROVE  TypeOK'
    <2>1. attempt' \in [Writers -> Attempt]
        <3>1. [attempt[w] EXCEPT !.step = to] \in Attempt
            BY <1>m, <1>b DEF Moves
        <3>2. attempt' = [attempt EXCEPT ![w] = [attempt[w] EXCEPT !.step = to]]
            BY <1>m DEF Moves
        <3> QED BY <3>1, <3>2
    <2> QED BY <2>1, <1>m DEF Moves
<1>t. ASSUME NEW d \in Docs, Takes(w, d) PROVE attempt' \in [Writers -> Attempt]
    BY <1>t, <1>0 DEF Takes
<1>1. CASE Claim(w)
    <2>1. attempt' \in [Writers -> Attempt] BY <1>1, <1>t DEF Claim
    <2> QED BY <2>1, <1>1 DEF Claim, Statuses
<1>2. CASE Skip(w) BY <1>2 DEF Skip
<1>3. CASE TakeJob(w)
    <2>1. attempt' \in [Writers -> Attempt] BY <1>3, <1>t DEF TakeJob
    <2> QED BY <2>1, <1>3 DEF TakeJob, Statuses
<1>4. CASE SelectAll(w) BY <1>4 DEF SelectAll
<1>5. CASE TakeNext(w)
    <2>1. attempt' \in [Writers -> Attempt] BY <1>5, <1>t DEF TakeNext
    <2> QED BY <2>1, <1>5 DEF TakeNext
<1>6. CASE Fetch(w) BY <1>6, <1>m DEF Fetch
<1>7. CASE NoText(w) BY <1>7, <1>m DEF NoText
<1>8. CASE Clear(w) BY <1>8, <1>m DEF Clear
<1>9. CASE Upsert(w)
    <2>1. points' \subseteq Docs BY <1>9, <1>b DEF Upsert, Moves
    <2> QED BY <2>1, <1>9, <1>m DEF Upsert
<1>10. CASE Finish(w)
    <2>1. attempt' \in [Writers -> Attempt] BY <1>10, <1>0 DEF Finish
    <2>2. row' \in [Docs -> Statuses] BY <1>10, <1>b DEF Finish, Statuses
    <2> QED BY <2>1, <2>2, <1>10 DEF Finish
<1>11. CASE AttemptFails(w)
    <2>1. attempt' \in [Writers -> Attempt] BY <1>11, <1>0 DEF AttemptFails
    <2>2. row' \in [Docs -> Statuses] /\ events' \subseteq Docs /\ todo' \in [Reindexers -> SUBSET Docs]
        BY <1>11, <1>b DEF AttemptFails, Statuses
    <2>3. jobs' \subseteq Legacy
        BY <1>11, <1>b DEF AttemptFails, OwnWay
    <2> QED BY <2>1, <2>2, <2>3, <1>11 DEF AttemptFails
<1> QED BY <1>1, <1>2, <1>3, <1>4, <1>5, <1>6, <1>7, <1>8, <1>9, <1>10, <1>11 DEF Write

\* Uploads and attempts stay on their own way.
LEMMA OwnWayKept ==
    ASSUME ErasureAssumption, TypeOK, OwnWay, [Next]_vars PROVE OwnWay'
<1> USE DEF TypeOK, storeVars, uploadVars, attemptVars, sagaVars
<1>1. ASSUME NEW d \in Docs, Bring(d) PROVE OwnWay'
    BY <1>1 DEF OwnWay, Busy, Bring, LetIn, Mint, Put, Store, Record, Publish, UploadFails,
                InsertRow, Upload
<1>2. ASSUME NEW w \in Writers, Write(w) PROVE OwnWay'
    <2>0. attempt \in [Writers -> Attempt] /\ jobs \subseteq Legacy
        OBVIOUS
    <2>a. UNCHANGED upload
        BY <1>2 DEF Write, Claim, Skip, TakeJob, SelectAll, TakeNext, Fetch, NoText, Clear, Upsert,
                    Finish, AttemptFails, Moves
    <2>b. ASSUME attempt' = [attempt EXCEPT ![w] = Idle] \/ attempt' = attempt PROVE OwnWay'
        BY <2>0, <2>a, <2>b DEF OwnWay, Busy, Writers
    <2>c. ASSUME NEW from, NEW to, Moves(w, from, to) PROVE OwnWay'
        <3>1. Busy(w) => attempt'[w].doc = attempt[w].doc
            BY <2>0, <2>c, BusyIsAt DEF Moves, Attempt, Idle, Busy
        <3>2. \A x \in Writers : x # w => attempt'[x] = attempt[x]
            BY <2>0, <2>c DEF Moves
        <3>3. \A x \in Drains : x \in Writers
            BY DEF Writers
        <3> QED BY <3>1, <3>2, <3>3, <2>a, <2>c DEF OwnWay, Busy, Moves
    <2>d. ASSUME NEW d \in Docs, Takes(w, d), w \in Drains => d \in Legacy PROVE OwnWay'
        <3>1. attempt'[w].doc = d
            BY <2>0, <2>d DEF Takes, At
        <3>2. \A x \in Writers : x # w => attempt'[x] = attempt[x]
            BY <2>0, <2>d DEF Takes
        <3>3. \A x \in Drains : x \in Writers
            BY DEF Writers
        <3> QED BY <3>1, <3>2, <3>3, <2>a, <2>d DEF OwnWay, Busy
    <2>1. CASE Claim(w) BY <2>1, <2>d DEF Claim, ErasureAssumption
    <2>3. CASE TakeJob(w) BY <2>0, <2>3, <2>d DEF TakeJob
    <2>5. CASE TakeNext(w) BY <2>5, <2>d DEF TakeNext, ErasureAssumption
    <2>6. CASE Fetch(w) \/ NoText(w) \/ Clear(w) \/ Upsert(w)
        BY <2>6, <2>c DEF Fetch, NoText, Clear, Upsert
    <2>7. CASE Skip(w) \/ SelectAll(w) \/ Finish(w) \/ AttemptFails(w)
        BY <2>7, <2>b DEF Skip, SelectAll, Finish, AttemptFails
    <2> QED BY <1>2, <2>1, <2>3, <2>5, <2>6, <2>7 DEF Write
<1>3. ASSUME UNCHANGED <<upload, attempt>> PROVE OwnWay'
    BY <1>3 DEF OwnWay, Busy
<1>4. ASSUME NEW e \in Erasers, Erase(e) PROVE UNCHANGED <<upload, attempt>>
    BY <1>4 DEF Erase, BeginErasure, Revoke, Count, DropPoints, List, DeleteObject, DeleteRows,
                Recount, FinishErasure, EraseFails, Goes
<1> QED BY <1>1, <1>2, <1>3, <1>4 DEF Next, Credential, Reclaim, vars

\* Every step keeps the types.
LEMMA NextTypes ==
    ASSUME ErasureAssumption, TypeOK, OwnWay, [Next]_vars PROVE TypeOK'
<1>1. CASE Credential BY <1>1 DEF Credential, TypeOK, uploadVars, attemptVars, sagaVars
<1>2. ASSUME NEW d \in Docs, Reclaim(d) PROVE TypeOK'
    BY <1>2 DEF Reclaim, TypeOK, Statuses, uploadVars, attemptVars, sagaVars
<1>3. CASE UNCHANGED vars
    BY <1>3 DEF TypeOK, vars, storeVars, uploadVars, attemptVars, sagaVars
<1> QED BY <1>1, <1>2, <1>3, BringTypes, WriteTypes, EraseTypes DEF Next

-----------------------------------------------------------------------------
\* Without the tenant.

\* No row comes without the tenant, and none stays when it goes.
LEMMA BareKept ==
    ASSUME TypeOK, Bare, [Next]_vars PROVE Bare'
<1> USE DEF TypeOK, storeVars, uploadVars, attemptVars, sagaVars
<1>1. ASSUME NEW d \in Docs, Bring(d) PROVE Bare'
    BY <1>1 DEF Bare, Bring, LetIn, Mint, Put, Store, Record, Publish, UploadFails,
                InsertRow, Upload
<1>2. ASSUME NEW w \in Writers, Write(w) PROVE Bare'
    <2>1. UNCHANGED <<tenant, access>>
        BY <1>2 DEF Write, Claim, Skip, TakeJob, SelectAll, TakeNext, Fetch, NoText, Clear, Upsert,
                    Finish, AttemptFails, Moves
    <2>2. (\A d \in Docs : row[d] = "none") => \A d \in Docs : row'[d] = "none"
        <3> SUFFICES ASSUME \A d \in Docs : row[d] = "none" PROVE \A d \in Docs : row'[d] = "none"
            OBVIOUS
        <3>1. ~Claim(w) BY DEF Claim, Claimable
        <3>2. CASE TakeJob(w) BY <3>2 DEF TakeJob, Claimable
        <3>3. CASE Finish(w) BY <3>3, BusyIsAt DEF Finish
        <3>4. CASE AttemptFails(w) BY <3>4, BusyIsAt DEF AttemptFails
        <3> QED BY <1>2, <3>1, <3>2, <3>3, <3>4
                DEF Write, Skip, SelectAll, TakeNext, Fetch, NoText, Clear, Upsert, Moves
    <2> QED BY <2>1, <2>2 DEF Bare
<1>3. ASSUME NEW e \in Erasers, Erase(e) PROVE Bare'
    <2>1. CASE DeleteRows(e) BY <2>1 DEF DeleteRows, Bare
    <2>2. CASE Revoke(e) BY <2>2 DEF Revoke, Goes, Bare
    <2> QED BY <1>3, <2>1, <2>2
            DEF Bare, Erase, BeginErasure, Count, DropPoints, List, DeleteObject,
                Recount, FinishErasure, EraseFails, Goes
<1>4. CASE Credential BY <1>4 DEF Credential, Bare
<1>5. ASSUME NEW d \in Docs, Reclaim(d) PROVE Bare' BY <1>5 DEF Reclaim, Bare
<1>6. CASE UNCHANGED vars BY <1>6 DEF vars, Bare
<1> QED BY <1>1, <1>2, <1>3, <1>4, <1>5, <1>6 DEF Next

\* What is on its way without the tenant becomes less, and points come from it.
LEMMA WaysEnd ==
    ASSUME TypeOK, OwnWay, Bare, ~tenant, [Next]_vars
    PROVE  ~tenant' /\ OnItsWay' \subseteq OnItsWay /\ points' \subseteq points \cup OnItsWay
<1> USE DEF TypeOK, storeVars, uploadVars, attemptVars, sagaVars
<1>0. /\ access = {} /\ \A d \in Docs : row[d] = "none"
      /\ tenant' = tenant
    BY DEF Bare, Next, vars, Credential, Bring, LetIn, Mint, Put, Store, Record, Publish,
           UploadFails, InsertRow, Upload, Write, Claim, Skip, TakeJob, SelectAll, TakeNext, Fetch,
           NoText, Clear, Upsert, Finish, AttemptFails, Moves, Reclaim, Erase, BeginErasure, Revoke,
           Count, DropPoints, List, DeleteObject, DeleteRows, Recount, FinishErasure, EraseFails, Goes
<1>a. ASSUME UNCHANGED <<attempt, todo, jobs, upload>>, points' \subseteq points
      PROVE  OnItsWay' \subseteq OnItsWay /\ points' \subseteq points \cup OnItsWay
    BY <1>a DEF OnItsWay, Busy
<1>1. ASSUME NEW d \in Docs, Bring(d)
      PROVE  OnItsWay' \subseteq OnItsWay /\ points' \subseteq points \cup OnItsWay
    <2>1. UNCHANGED <<attempt, todo, points>>
        BY <1>1 DEF Bring, LetIn, Mint, Put, Store, Record, Publish, UploadFails, InsertRow, Upload
    <2>2. /\ jobs' \subseteq jobs \cup {x \in Docs : upload[x] = "recorded"}
          /\ \A x \in Docs : upload'[x] = "recorded" => upload[x] = "recorded"
        BY <1>1 DEF Bring, LetIn, Mint, Put, Store, Record, Publish, UploadFails, InsertRow, Upload
    <2> QED BY <2>1, <2>2 DEF OnItsWay, Busy
<1>2. ASSUME NEW w \in Writers, Write(w)
      PROVE  OnItsWay' \subseteq OnItsWay /\ points' \subseteq points \cup OnItsWay
    <2>0. attempt \in [Writers -> Attempt] /\ todo \in [Reindexers -> SUBSET Docs]
        OBVIOUS
    <2>a. UNCHANGED upload
        BY <1>2 DEF Write, Claim, Skip, TakeJob, SelectAll, TakeNext, Fetch, NoText, Clear, Upsert,
                    Finish, AttemptFails, Moves
    <2>b. ASSUME \A x \in Writers : Busy(x)' =>
                    \/ Busy(x) /\ attempt'[x].doc = attempt[x].doc
                    \/ attempt'[x].doc \in OnItsWay,
                 \A x \in Reindexers : todo'[x] \subseteq todo[x],
                 jobs' \subseteq jobs \cup OnItsWay
          PROVE  OnItsWay' \subseteq OnItsWay
        BY <2>a, <2>b DEF OnItsWay
    <2>c. ASSUME NEW from, NEW to, Moves(w, from, to)
          PROVE  /\ OnItsWay' \subseteq OnItsWay
                 /\ attempt[w].doc \in OnItsWay
        <3>1. Busy(w) /\ attempt'[w].doc = attempt[w].doc
            BY <2>0, <2>c, BusyIsAt DEF Moves, Attempt, Idle, Busy
        <3>2. \A x \in Writers : x # w => attempt'[x] = attempt[x]
            BY <2>0, <2>c DEF Moves
        <3>3. UNCHANGED <<todo, jobs>>
            BY <2>c DEF Moves
        <3>4. attempt[w].doc \in OnItsWay
            BY <3>1, BusyIsAt DEF OnItsWay
        <3> QED BY <3>1, <3>2, <3>3, <3>4, <2>b DEF Busy
    <2>d. ASSUME NEW d \in Docs, d \in OnItsWay, Takes(w, d),
                 \A x \in Reindexers : todo'[x] \subseteq todo[x], jobs' \subseteq jobs
          PROVE  OnItsWay' \subseteq OnItsWay
        <3>1. attempt'[w].doc = d
            BY <2>0, <2>d DEF Takes, At
        <3>2. \A x \in Writers : x # w => attempt'[x] = attempt[x]
            BY <2>0, <2>d DEF Takes
        <3> QED BY <3>1, <3>2, <2>b, <2>d DEF Busy
    <2>e. ASSUME attempt' = [attempt EXCEPT ![w] = Idle],
                 \A x \in Reindexers : todo'[x] \subseteq todo[x],
                 jobs' \subseteq jobs \cup OnItsWay
          PROVE  OnItsWay' \subseteq OnItsWay
        <3>1. \A x \in Writers : Busy(x)' => Busy(x) /\ attempt'[x] = attempt[x]
            BY <2>0, <2>e DEF Busy
        <3> QED BY <3>1, <2>b, <2>e
    <2>1. ~Claim(w)
        BY <1>0 DEF Claim, Claimable
    <2>2. CASE Skip(w)
        BY <2>2, <1>a DEF Skip
    <2>3. CASE TakeJob(w)
        <3>1. PICK d \in jobs : Takes(w, d) /\ jobs' = jobs \ {d}
            BY <2>3 DEF TakeJob
        <3>2. d \in Docs /\ d \in OnItsWay
            BY ErasureAssumption DEF ErasureAssumption, OnItsWay
        <3>3. UNCHANGED <<todo, points>>
            BY <2>3 DEF TakeJob
        <3> QED BY <3>1, <3>2, <3>3, <2>d
    <2>4. CASE SelectAll(w)
        <3>1. todo'[w] = {} /\ \A x \in Reindexers : x # w => todo'[x] = todo[x]
            BY <2>0, <2>4, <1>0 DEF SelectAll
        <3>2. \A x \in Reindexers : todo'[x] \subseteq todo[x]
            BY <3>1
        <3>3. UNCHANGED <<attempt, jobs, points>>
            BY <2>4 DEF SelectAll
        <3> QED BY <3>2, <3>3, <2>b DEF Busy
    <2>5. CASE TakeNext(w)
        <3>1. PICK d \in todo[w] : Takes(w, d) /\ todo' = [todo EXCEPT ![w] = @ \ {d}]
            BY <2>5 DEF TakeNext
        <3>2. d \in Docs /\ d \in OnItsWay
            BY <2>0, <2>5, <3>1 DEF OnItsWay, TakeNext
        <3>3. \A x \in Reindexers : todo'[x] \subseteq todo[x]
            BY <2>0, <3>1
        <3>4. UNCHANGED <<jobs, points>>
            BY <2>5 DEF TakeNext
        <3> QED BY <3>1, <3>2, <3>3, <3>4, <2>d
    <2>6. CASE Fetch(w) \/ NoText(w) \/ Clear(w) \/ Upsert(w)
        BY <2>6, <2>c DEF Fetch, NoText, Clear, Upsert
    <2>7. CASE Finish(w)
        BY <2>7, <2>e DEF Finish
    <2>8. CASE AttemptFails(w)
        <3>1. attempt[w].doc \in OnItsWay
            BY <2>8, BusyIsAt DEF AttemptFails, OnItsWay
        <3>2. \A x \in Reindexers : todo'[x] \subseteq todo[x]
            BY <2>0, <2>8 DEF AttemptFails
        <3>3. jobs' \subseteq jobs \cup OnItsWay
            BY <3>1, <2>8 DEF AttemptFails
        <3>4. attempt' = [attempt EXCEPT ![w] = Idle] /\ UNCHANGED points
            BY <2>8 DEF AttemptFails
        <3> QED BY <3>2, <3>3, <3>4, <2>e
    <2> QED BY <1>2, <2>1, <2>2, <2>3, <2>4, <2>5, <2>6, <2>7, <2>8 DEF Write
<1>3. ASSUME NEW e \in Erasers, Erase(e)
      PROVE  OnItsWay' \subseteq OnItsWay /\ points' \subseteq points \cup OnItsWay
    <2>1. UNCHANGED <<attempt, todo, jobs, upload>> /\ points' \subseteq points
        BY <1>3 DEF Erase, BeginErasure, Revoke, Count, DropPoints, List, DeleteObject, DeleteRows,
                    Recount, FinishErasure, EraseFails, Goes
    <2> QED BY <2>1, <1>a
<1>4. ASSUME Credential \/ UNCHANGED vars \/ \E d \in Docs : Reclaim(d)
      PROVE  OnItsWay' \subseteq OnItsWay /\ points' \subseteq points \cup OnItsWay
    <2>1. UNCHANGED <<attempt, todo, jobs, upload, points>>
        BY <1>4 DEF Credential, vars, Reclaim
    <2> QED BY <2>1, <1>a
<1> QED BY <1>0, <1>1, <1>2, <1>3, <1>4 DEF Next

-----------------------------------------------------------------------------
\* The erasures.

\* A step of something else than erasure e.
LEMMA SagaFrame ==
    ASSUME TypeOK, OwnWay, Bare, [Next]_vars, NEW e \in Erasers, SagaOK(e),
           saga'[e] = saga[e], audit'[e] = audit[e], underway'[e] = underway[e]
    PROVE  SagaOK(e)'
<1>1. CASE tenant
    <2>1. saga[e] \notin Swept \cup {"recount"} /\ audit[e] # "closed"
        BY <1>1 DEF SagaOK, Swept
    <2> QED BY <2>1 DEF SagaOK, Swept
<1>2. CASE ~tenant
    BY <1>2, WaysEnd DEF SagaOK, Swept
<1> QED BY <1>1, <1>2

\* A step of erasure e.
LEMMA SagaStep ==
    ASSUME TypeOK, OwnWay, Bare, NEW e \in Erasers, SagaOK(e), Erase(e)
    PROVE  SagaOK(e)'
<1> USE DEF TypeOK, storeVars, uploadVars, attemptVars
<1>0. OnItsWay' = OnItsWay
    <2>1. UNCHANGED <<attempt, todo, jobs, upload>>
        BY DEF Erase, BeginErasure, Revoke, Count, DropPoints, List, DeleteObject, DeleteRows,
               Recount, FinishErasure, EraseFails, Goes
    <2> QED BY <2>1 DEF OnItsWay, Busy
<1>1. CASE BeginErasure(e) \/ Revoke(e) \/ Count(e) \/ List(e) \/ EraseFails(e)
    BY <1>1 DEF BeginErasure, Revoke, Count, List, EraseFails, Goes, SagaOK, Swept, Steps
<1>2. CASE DropPoints(e)
    BY <1>0, <1>2 DEF DropPoints, Goes, SagaOK, Swept
<1>3. CASE DeleteObject(e)
    BY <1>0, <1>3 DEF DeleteObject, SagaOK, Swept
<1>4. CASE DeleteRows(e)
    BY <1>4 DEF DeleteRows, Goes, SagaOK, Swept
<1>5. CASE Recount(e)
    BY <1>0, <1>5 DEF Recount, Goes, SagaOK, Swept
<1>6. CASE FinishErasure(e)
    BY <1>0, <1>6 DEF FinishErasure, Goes, SagaOK, Swept
<1> QED BY <1>1, <1>2, <1>3, <1>4, <1>5, <1>6 DEF Erase

\* Every step keeps every erasure's part.
LEMMA SagasKept ==
    ASSUME TypeOK, OwnWay, Bare, \A e \in Erasers : SagaOK(e), [Next]_vars
    PROVE  \A e \in Erasers : SagaOK(e)'
<1> USE DEF storeVars, uploadVars, attemptVars, sagaVars
<1>0. saga \in [Erasers -> Steps] /\ audit \in [Erasers -> {"none", "open", "closed"}]
      /\ underway \in [Erasers -> SUBSET Docs]
    BY DEF TypeOK
<1>1. ASSUME NEW f \in Erasers, Erase(f), NEW e \in Erasers PROVE SagaOK(e)'
    <2>1. CASE e = f BY <2>1, <1>1, SagaStep
    <2>2. CASE e # f
        <3>1. saga'[e] = saga[e] /\ audit'[e] = audit[e] /\ underway'[e] = underway[e]
            BY <1>0, <1>1, <2>2 DEF Erase, BeginErasure, Revoke, Count, DropPoints, List,
                   DeleteObject, DeleteRows, Recount, FinishErasure, EraseFails, Goes
        <3> QED BY <3>1, <1>1, SagaFrame DEF Next
    <2> QED BY <2>1, <2>2
<1>2. ASSUME UNCHANGED sagaVars, NEW e \in Erasers PROVE SagaOK(e)'
    BY <1>2, SagaFrame
<1>3. ASSUME NEW d \in Docs, Bring(d) \/ Reclaim(d) PROVE UNCHANGED sagaVars
    BY <1>3 DEF Bring, LetIn, Mint, Put, Store, Record, Publish, UploadFails, InsertRow, Upload,
                Reclaim
<1>4. ASSUME NEW w \in Writers, Write(w) PROVE UNCHANGED sagaVars
    BY <1>4 DEF Write, Claim, Skip, TakeJob, SelectAll, TakeNext, Fetch, NoText, Clear, Upsert,
                Finish, AttemptFails, Moves
<1> QED BY <1>1, <1>2, <1>3, <1>4 DEF Next, Credential, vars

-----------------------------------------------------------------------------
\* The invariant holds at first.
LEMMA ErasureStarts == ErasureAssumption /\ Init => IInv
<1> SUFFICES ASSUME ErasureAssumption, Init PROVE IInv
    OBVIOUS
<1>1. TypeOK
    BY DEF Init, TypeOK, Attempt, Statuses, Steps
<1>2. Bare /\ OwnWay
    BY DEF Init, Bare, OwnWay, Busy, Writers
<1>3. \A e \in Erasers : SagaOK(e)
    BY DEF Init, SagaOK, Swept
<1> QED BY <1>1, <1>2, <1>3 DEF IInv

\* Every step keeps it.
LEMMA ErasureStep == ErasureAssumption /\ IInv /\ [Next]_vars => IInv'
<1> SUFFICES ASSUME ErasureAssumption, IInv, [Next]_vars PROVE IInv'
    OBVIOUS
<1> QED BY NextTypes, BareKept, OwnWayKept, SagasKept DEF IInv

(* Once the rows are gone what is on its way only becomes less, and a      *)
(* finished erasure has swept after it looked.                             *)
THEOREM ErasureInvariant == Spec => []IInv
BY ErasureStarts, ErasureStep, ErasureAssumption, PTL DEF Spec

(* Every variable of TenantErasure keeps its type; only documents of the   *)
(* deprecated upload are ever in its queue (upload_document).              *)
THEOREM ErasureTypeCorrect == Spec => []TypeOK
<1>1. IInv => TypeOK BY DEF IInv
<1> QED BY <1>1, ErasureInvariant, PTL

(* The points a finished erasure leaves were on their way at its second    *)
(* sweep, for any documents and any number of writers and erasures.        *)
THEOREM LeftoversWereOnTheirWayAlways == Spec => []LeftoversWereOnTheirWay
<1>1. IInv => LeftoversWereOnTheirWay BY DEF IInv, SagaOK, LeftoversWereOnTheirWay
<1> QED BY <1>1, ErasureInvariant, PTL

(* A finished erasure leaves no tenant, credential or document, and none   *)
(* comes back (the foreign keys, claim).                                   *)
THEOREM ErasedIsGoneAlways == Spec => []ErasedIsGone
<1>1. IInv => ErasedIsGone BY DEF IInv, Bare, SagaOK, Swept, ErasedIsGone
<1> QED BY <1>1, ErasureInvariant, PTL
=============================================================================
