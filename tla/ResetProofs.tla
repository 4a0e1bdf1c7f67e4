----------------------------- MODULE ResetProofs -----------------------------
(***************************************************************************)
(* Of the reset links of an account one wins, whatever else goes on and    *)
(* for any number of resets at once.                                       *)
(***************************************************************************)
EXTENDS AccountsProofs

ResetSteps == {"redeem", "set", "burn", "revoke", "commit", "won"}
Burning    == {"revoke", "commit"}

\* Nobody will mail link n any more.
Spent(n) == n \in Standing \/ (n \in Requests /\ at[n].step = "done")

Minted ==
    /\ \A n \in Names : link[n] # None => Spent(n)
    /\ \A r \in Requests : at[r].step \in ResetSteps => at[r].ref \in Names /\ Spent(at[r].ref)

\* A link is redeemed or burned by one transaction at a time.
LinkLock ==
    /\ \A r \in Requests : held[r].links # {} => at[r].step \in Burning
    /\ \A q, r \in Requests : \A l \in Names : HoldsLink(q, l) /\ HoldsLink(r, l) => q = r

\* The link of a reset under way is not used, and that of one that won is.
RefOK ==
    \A r \in Requests :
        /\ Resetting(r) => /\ link[at[r].ref] # None
                           /\ link[at[r].ref].account = at[r].account
                           /\ link[at[r].ref].state # "used"
        /\ at[r].step = "won" /\ link[at[r].ref] # None => link[at[r].ref].state = "used"

\* What a burn finds unused it holds, and what it does not find was mailed after.
Burned ==
    \A q \in Requests : at[q].step \in Burning \cup {"won"} =>
        \A m \in Names : link[m] # None /\ link[m].account = at[q].account =>
            q \in link[m].after \/ link[m].state = "used" \/ HoldsLink(q, m)

LinkInv == Minted /\ LinkLock /\ RefOK /\ Burned /\ OneLinkWins

-----------------------------------------------------------------------------
(* Steps that use no link and mail none.                                   *)

Same(q) == at'[q] = at[q] /\ held'[q].links = held[q].links

\* Request q is not inside a reset after the step.
Outside(q) ==
    /\ at[q].step \notin {"done", "won"}
    /\ at'[q].step \notin ResetSteps \ {"redeem"}
    /\ at'[q].step = "redeem" => at'[q].ref \in Names /\ Spent(at'[q].ref)
    /\ held'[q].links = {}

\* Request q goes on inside its reset.
Onward(q) ==
    /\ \/ at[q].step = "set" /\ at'[q].step = "burn"
       \/ at[q].step = "revoke" /\ at'[q].step = "commit"
    /\ at'[q].ref = at[q].ref /\ at'[q].account = at[q].account
    /\ held'[q].links = held[q].links

\* Links may go or expire.
LinksKeep ==
    \A l \in Names : link'[l] # None =>
        /\ link[l] # None
        /\ link'[l].account = link[l].account /\ link'[l].after = link[l].after
        /\ link'[l].state = "used" <=> link[l].state = "used"

LEMMA SpentStays ==
  ASSUME \A q \in Requests : at[q].step = "done" => at'[q] = at[q]
  PROVE  \A n : Spent(n) => Spent(n)'
  BY DEF Spent

LEMMA StepKeepsLinks ==
  ASSUME LinkInv, \A q \in Requests : Same(q) \/ Outside(q) \/ Onward(q), LinksKeep,
         \A q \in Requests : Resetting(q)' => link'[at'[q].ref] # None
  PROVE  LinkInv'
  <1>1. \A n : Spent(n) => Spent(n)'
    <2>1. \A q \in Requests : at[q].step = "done" => at'[q] = at[q]
      BY DEF Same, Outside, Onward
    <2> QED
      BY <2>1, SpentStays
  <1>2. ASSUME NEW q \in Requests, Resetting(q)'
        PROVE  Resetting(q) /\ at'[q].ref = at[q].ref /\ at'[q].account = at[q].account
               /\ held'[q].links = held[q].links
    BY <1>2 DEF Resetting, Same, Outside, Onward, ResetSteps
  <1>3. \A q \in Requests : \A l : HoldsLink(q, l)' => HoldsLink(q, l)
    BY <1>2 DEF HoldsLink
  <1>4. ASSUME NEW q \in Requests, at'[q].step \in Burning \cup {"won"}
        PROVE  /\ at[q].step \in Burning \cup {"won"} /\ at'[q].account = at[q].account
               /\ \A l : HoldsLink(q, l) => HoldsLink(q, l)'
    BY <1>4 DEF Burning, Same, Outside, Onward, ResetSteps, HoldsLink, Resetting
  <1>5. ASSUME NEW q \in Requests, at'[q].step = "won" PROVE at'[q] = at[q]
    BY <1>5 DEF Same, Outside, Onward, ResetSteps
  <1>6. Minted'
    <2>1. ASSUME NEW q \in Requests, at'[q].step \in ResetSteps
          PROVE  at'[q].ref \in Names /\ Spent(at'[q].ref)
      BY <2>1 DEF LinkInv, Minted, Same, Outside, Onward, ResetSteps
    <2> QED
      BY <1>1, <2>1 DEF LinkInv, Minted, LinksKeep
  <1>7. LinkLock'
    <2>1. ASSUME NEW q \in Requests, held'[q].links # {} PROVE at'[q].step \in Burning
      BY <2>1 DEF LinkInv, LinkLock, Same, Outside, Onward, Burning
    <2> QED
      BY <1>3, <2>1 DEF LinkInv, LinkLock
  <1>8. RefOK'
    <2> SUFFICES ASSUME NEW q \in Requests
                 PROVE  /\ Resetting(q)' => /\ link'[at'[q].ref] # None
                                            /\ link'[at'[q].ref].account = at'[q].account
                                            /\ link'[at'[q].ref].state # "used"
                        /\ at'[q].step = "won" /\ link'[at'[q].ref] # None
                              => link'[at'[q].ref].state = "used"
      BY DEF RefOK
    <2>1. at'[q].step \in ResetSteps => at'[q].ref \in Names
      BY <1>6 DEF Minted
    <2> QED
      BY <1>2, <1>5, <2>1 DEF LinkInv, RefOK, LinksKeep, Resetting, ResetSteps
  <1>9. Burned'
    <2> SUFFICES ASSUME NEW q \in Requests, at'[q].step \in Burning \cup {"won"},
                        NEW m \in Names, link'[m] # None, link'[m].account = at'[q].account
                 PROVE  q \in link'[m].after \/ link'[m].state = "used" \/ HoldsLink(q, m)'
      BY DEF Burned
    <2> QED
      BY <1>4 DEF LinkInv, Burned, LinksKeep
  <1>10. OneLinkWins'
    <2> SUFFICES ASSUME NEW q \in Requests, NEW r \in Requests, q # r,
                        at'[q].step = "won", at'[r].step = "won",
                        at'[q].account = at'[r].account,
                        link'[at'[q].ref] # None, link'[at'[r].ref] # None
                 PROVE  q \in link'[at'[r].ref].after \/ r \in link'[at'[q].ref].after
      BY DEF OneLinkWins
    <2>1. at'[q] = at[q] /\ at'[r] = at[r]
      BY <1>5
    <2>2. at[q].ref \in Names /\ at[r].ref \in Names
      BY <2>1 DEF LinkInv, Minted, ResetSteps
    <2> QED
      BY <2>1, <2>2 DEF LinkInv, OneLinkWins, LinksKeep
  <1> QED
    BY <1>6, <1>7, <1>8, <1>9, <1>10 DEF LinkInv

\* Only request r moves, out of any reset, and no link changes.
LEMMA OutsideKeepsLinks ==
  ASSUME LinkInv, NEW r \in Requests, Outside(r), link' = link,
         \A q \in Requests : q # r => Same(q)
  PROVE  LinkInv'
  <1>1. LinksKeep
    BY DEF LinksKeep
  <1>2. \A q \in Requests : Resetting(q)' => link'[at'[q].ref] # None
    BY DEF LinkInv, RefOK, Resetting, Same, Outside, ResetSteps
  <1> QED
    BY <1>1, <1>2, StepKeepsLinks

\* The common step: another place outside every reset.
LEMMA GotoKeepsLinks ==
  ASSUME Types, LinkInv, NEW r \in Requests, NEW step \in Steps \ ResetSteps, Goto(r, step),
         at[r].step \notin {"done", "won"} \cup Burning,
         \A q \in Requests : held'[q].links = held[q].links, link' = link
  PROVE  LinkInv'
  <1>1. at'[r].step = step /\ \A q \in Requests : q # r => at'[q] = at[q]
    BY DEF Goto, Types, TypeOK, Place
  <1>2. held[r].links = {}
    BY DEF LinkInv, LinkLock
  <1> QED
    BY <1>1, <1>2, OutsideKeepsLinks DEF Outside, Same, ResetSteps
-----------------------------------------------------------------------------
(* One step of the proof for each action.                                  *)

LEMMA BeginKeepsLinks ==
  ASSUME Types, LinkInv, NEW r \in Requests, Begin(r) PROVE LinkInv'
  <1>1. /\ at[r].step = "new" /\ link' = link /\ held' = held
        /\ \A q \in Requests : q # r => at'[q] = at[q]
    BY DEF Begin, BeginRegister, BeginAdmin, BeginByEmail, BeginReset, BeginWithSession, rowVars,
           Types, TypeOK
  <1>2. held[r].links = {}
    BY <1>1 DEF LinkInv, LinkLock, Burning
  <1>3. at'[r].step \notin ResetSteps \ {"redeem"}
    BY DEF Begin, BeginRegister, BeginAdmin, BeginByEmail, BeginReset, BeginWithSession, Nowhere,
           Types, TypeOK, ResetSteps
  <1>4. ASSUME at'[r].step = "redeem" PROVE at'[r].ref \in Names /\ Spent(at'[r].ref)
    <2>1. PICK l \in Names : BeginReset(r, l)
      BY <1>4 DEF Begin, BeginRegister, BeginAdmin, BeginByEmail, BeginWithSession, Nowhere,
                  Types, TypeOK
    <2>2. at'[r].ref = l
      BY <2>1 DEF BeginReset, Nowhere, Types, TypeOK
    <2> QED
      BY <2>1, <2>2 DEF BeginReset, LinkInv, Minted
  <1> QED
    BY <1>1, <1>2, <1>3, <1>4, OutsideKeepsLinks DEF Outside, Same

LEMMA RedeemKeepsLinks ==
  ASSUME Types, LinkInv, NEW r \in Requests, Redeem(r) PROVE LinkInv'
  <1> DEFINE l == at[r].ref
  <1>1. /\ at[r].step = "redeem" /\ link' = link /\ held' = held
        /\ \A q \in Requests : ~HoldsLink(q, l)
        /\ l \in Names /\ Spent(l)
    BY DEF Redeem, LinkFree, rowVars, LinkInv, Minted, ResetSteps
  <1>2. held[r].links = {}
    BY <1>1 DEF LinkInv, LinkLock, Burning
  <1>3. CASE Goto(r, "done")
    BY <1>1, <1>2, <1>3, GotoKeepsLinks DEF Steps, ResetSteps, Burning
  <1>4. CASE /\ link[l] # None /\ link[l].state = "live"
             /\ at' = [at EXCEPT ![r].step = "set", ![r].account = link[l].account]
    <2>1. /\ at'[r].step = "set" /\ at'[r].account = link[l].account /\ at'[r].ref = l
          /\ \A q \in Requests : q # r => at'[q] = at[q]
      BY <1>4 DEF Types, TypeOK, Place
    <2>2. \A n : Spent(n) => Spent(n)'
      BY <1>1, <2>1, SpentStays
    <2>3. \A q \in Requests : \A n : HoldsLink(q, n)' =>
             (q = r /\ n = l) \/ (q # r /\ HoldsLink(q, n))
      BY <1>1, <1>2, <2>1 DEF HoldsLink, Resetting
    <2>4. Minted'
      BY <1>1, <2>1, <2>2 DEF LinkInv, Minted
    <2>5. LinkLock'
      BY <1>1, <1>2, <2>1, <2>3 DEF LinkInv, LinkLock
    <2>6. RefOK'
      <3>1. "live" # "used"
        OBVIOUS
      <3> QED
        BY <1>1, <1>4, <2>1, <3>1 DEF LinkInv, RefOK, Resetting
    <2>7. Burned'
      BY <1>1, <2>1 DEF LinkInv, Burned, Burning, HoldsLink, Resetting
    <2>8. OneLinkWins'
      BY <1>1, <2>1 DEF LinkInv, OneLinkWins
    <2> QED
      BY <2>4, <2>5, <2>6, <2>7, <2>8 DEF LinkInv
  <1> QED
    BY <1>3, <1>4 DEF Redeem

LEMMA OnwardKeepsLinks ==
  ASSUME Types, LinkInv, NEW r \in Requests, SetPassword(r) \/ RevokeSessions(r) PROVE LinkInv'
  <1>1. /\ Onward(r) /\ link' = link
        /\ \A q \in Requests : q # r => Same(q)
    <2>1. /\ \A q \in Requests : held'[q].links = held[q].links
          /\ link' = link
      BY DEF SetPassword, RevokeSessions, rowVars, Types, TypeOK, Writes
    <2>2. CASE SetPassword(r)
      <3>1. /\ at'[r].step = "burn" /\ at'[r].ref = at[r].ref /\ at'[r].account = at[r].account
            /\ \A q \in Requests : q # r => at'[q] = at[q]
        BY <2>2 DEF SetPassword, Goto, Types, TypeOK, Place
      <3> QED
        BY <2>1, <2>2, <3>1 DEF SetPassword, Onward, Same
    <2>3. CASE RevokeSessions(r)
      <3>1. /\ at'[r].step = "commit" /\ at'[r].ref = at[r].ref /\ at'[r].account = at[r].account
            /\ \A q \in Requests : q # r => at'[q] = at[q]
        BY <2>3 DEF RevokeSessions, Goto, Types, TypeOK, Place
      <3> QED
        BY <2>1, <2>3, <3>1 DEF RevokeSessions, Onward, Same
    <2> QED
      BY <2>2, <2>3
  <1>2. LinksKeep
    BY <1>1 DEF LinksKeep
  <1>3. \A q \in Requests : Resetting(q)' => link'[at'[q].ref] # None
    BY <1>1 DEF LinkInv, RefOK, Resetting, Same, Onward
  <1> QED
    BY <1>1, <1>2, <1>3, StepKeepsLinks

LEMMA BurnKeepsLinks ==
  ASSUME Types, LinkInv, NEW r \in Requests, BurnLinks(r) PROVE LinkInv'
  <1> DEFINE others == UnusedLinks(at[r].account) \ {at[r].ref}
  <1>1. /\ at[r].step = "burn" /\ link' = link
        /\ \A l \in others : \A q \in Requests : ~HoldsLink(q, l)
    BY DEF BurnLinks, LinkFree, rowVars
  <1>2. /\ at'[r].step = "revoke" /\ at'[r].account = at[r].account /\ at'[r].ref = at[r].ref
        /\ held'[r].links = others
        /\ \A q \in Requests : q # r => at'[q] = at[q] /\ held'[q] = held[q]
    BY DEF BurnLinks, Goto, Types, TypeOK, Place, Writes
  <1> HIDE DEF others
  <1>3. \A n : Spent(n) => Spent(n)'
    BY <1>1, <1>2, SpentStays
  <1>4. \A q \in Requests : \A l : HoldsLink(q, l)' => HoldsLink(q, l) \/ (q = r /\ l \in others)
    BY <1>1, <1>2 DEF HoldsLink, Resetting
  <1>5. Minted'
    BY <1>1, <1>2, <1>3 DEF LinkInv, Minted, ResetSteps
  <1>6. LinkLock'
    BY <1>1, <1>2, <1>4 DEF LinkInv, LinkLock, Burning
  <1>7. RefOK'
    BY <1>1, <1>2 DEF LinkInv, RefOK, Resetting
  <1>8. Burned'
    <2> SUFFICES ASSUME NEW q \in Requests, at'[q].step \in Burning \cup {"won"},
                        NEW m \in Names, link[m] # None, link[m].account = at'[q].account
                 PROVE  q \in link[m].after \/ link[m].state = "used" \/ HoldsLink(q, m)'
      BY <1>1 DEF Burned
    <2>1. CASE q = r
      BY <1>2, <2>1 DEF others, UnusedLinks, HoldsLink, Resetting
    <2>2. CASE q # r
      BY <1>2, <2>2 DEF LinkInv, Burned, HoldsLink, Resetting
    <2> QED
      BY <2>1, <2>2
  <1>9. OneLinkWins'
    BY <1>1, <1>2 DEF LinkInv, OneLinkWins
  <1> QED
    BY <1>5, <1>6, <1>7, <1>8, <1>9 DEF LinkInv

\* A reset that commits second has a link that was mailed after the first burned.
LEMMA CommitKeepsLinks ==
  ASSUME Types, LinkInv, NEW r \in Requests, CommitReset(r) PROVE LinkInv'
  <1> DEFINE used == held[r].links \cup {at[r].ref}
  <1>1. /\ at[r].step = "commit" /\ Resetting(r)
        /\ \A l : l \in used <=> HoldsLink(r, l)
    BY DEF CommitReset, Resetting, HoldsLink
  <1>2. /\ at'[r].step = "won" /\ at'[r].account = at[r].account /\ at'[r].ref = at[r].ref
        /\ held'[r].links = {}
        /\ \A q \in Requests : q # r => at'[q] = at[q] /\ held'[q] = held[q]
    BY DEF CommitReset, Goto, Nothing, Types, TypeOK, Place
  <1>3. \A l \in Names :
           /\ link'[l] # None <=> link[l] # None
           /\ link[l] # None => /\ link'[l].account = link[l].account
                                /\ link'[l].after = link[l].after
                                /\ link'[l].state = IF l \in used THEN "used" ELSE link[l].state
    <2> SUFFICES ASSUME NEW l \in Names
                 PROVE  /\ link'[l] # None <=> link[l] # None
                        /\ link[l] # None => /\ link'[l].account = link[l].account
                                /\ link'[l].after = link[l].after
                                /\ link'[l].state = IF l \in used THEN "used" ELSE link[l].state
      OBVIOUS
    <2>1. link'[l] = IF l \in used /\ link[l] # None THEN [link[l] EXCEPT !.state = "used"] ELSE link[l]
      BY DEF CommitReset
    <2>2. link[l] # None => link[l] \in Link
      BY DEF Types, TypeOK
    <2>3. link[l] # None => [link[l] EXCEPT !.state = "used"] \in Link
      BY <2>2 DEF Link
    <2> QED
      BY <2>1, <2>2, <2>3, RowAssumption DEF Link
  <1> HIDE DEF used
  <1>4. \A n : Spent(n) => Spent(n)'
    BY <1>1, <1>2, SpentStays
  <1>5. \A q \in Requests : \A l : HoldsLink(q, l)' <=> q # r /\ HoldsLink(q, l)
    BY <1>2 DEF HoldsLink, Resetting
  <1>6. Minted'
    BY <1>1, <1>2, <1>3, <1>4 DEF LinkInv, Minted, ResetSteps
  <1>7. LinkLock'
    BY <1>2, <1>5 DEF LinkInv, LinkLock
  <1>8. RefOK'
    <2> SUFFICES ASSUME NEW q \in Requests
                 PROVE  /\ Resetting(q)' => /\ link'[at'[q].ref] # None
                                            /\ link'[at'[q].ref].account = at'[q].account
                                            /\ link'[at'[q].ref].state # "used"
                        /\ at'[q].step = "won" /\ link'[at'[q].ref] # None
                              => link'[at'[q].ref].state = "used"
      BY DEF RefOK
    <2>1. at'[q].ref = at[q].ref /\ (at'[q].step \in ResetSteps => at[q].ref \in Names)
      BY <1>2, <1>6 DEF Minted
    <2>2. CASE q = r
      BY <1>1, <1>2, <1>3, <2>1, <2>2 DEF HoldsLink, Resetting, ResetSteps
    <2>3. CASE q # r
      <3>1. Resetting(q) => at[q].ref \notin used
        BY <1>1, <1>2, <2>1, <2>3 DEF LinkInv, LinkLock, HoldsLink, Resetting, ResetSteps
      <3> QED
        BY <1>2, <1>3, <2>1, <2>3, <3>1 DEF LinkInv, RefOK, Resetting, ResetSteps
    <2> QED
      BY <2>2, <2>3
  <1>9. Burned'
    <2> SUFFICES ASSUME NEW q \in Requests, at'[q].step \in Burning \cup {"won"},
                        NEW m \in Names, link'[m] # None, link'[m].account = at'[q].account
                 PROVE  q \in link'[m].after \/ link'[m].state = "used" \/ HoldsLink(q, m)'
      BY DEF Burned
    <2>1. at[q].step \in Burning \cup {"won"} /\ at'[q].account = at[q].account
      BY <1>1, <1>2 DEF Burning
    <2>2. q \in link[m].after \/ link[m].state = "used" \/ HoldsLink(q, m)
      BY <1>3, <2>1 DEF LinkInv, Burned
    <2> QED
      BY <1>1, <1>3, <1>5, <2>2
  <1>10. OneLinkWins'
    <2>1. ASSUME NEW q \in Requests, q # r, at[q].step = "won", at[q].account = at[r].account,
                 link[at[q].ref] # None
          PROVE  q \in link[at[r].ref].after
      <3>1. /\ at[r].ref \in Names /\ link[at[r].ref] # None
            /\ link[at[r].ref].account = at[r].account /\ link[at[r].ref].state # "used"
        BY <1>1 DEF LinkInv, Minted, RefOK, ResetSteps
      <3>2. ~HoldsLink(q, at[r].ref)
        BY <2>1 DEF HoldsLink, Resetting
      <3> QED
        BY <2>1, <3>1, <3>2 DEF LinkInv, Burned
    <2> SUFFICES ASSUME NEW q \in Requests, NEW p \in Requests, q # p,
                        at'[q].step = "won", at'[p].step = "won",
                        at'[q].account = at'[p].account,
                        link'[at'[q].ref] # None, link'[at'[p].ref] # None
                 PROVE  q \in link'[at'[p].ref].after \/ p \in link'[at'[q].ref].after
      BY DEF OneLinkWins
    <2>2. /\ at'[q].ref = at[q].ref /\ at'[p].ref = at[p].ref
          /\ at[q].ref \in Names /\ at[p].ref \in Names
      BY <1>2, <1>6 DEF Minted, ResetSteps
    <2>3. link[at[q].ref] # None /\ link[at[p].ref] # None
      BY <1>3, <2>2
    <2>4. q \in link[at[p].ref].after \/ p \in link[at[q].ref].after
      <3>1. CASE q = r
        BY <1>2, <2>1, <2>3, <3>1
      <3>2. CASE p = r
        BY <1>2, <2>1, <2>3, <3>2
      <3>3. CASE q # r /\ p # r
        BY <1>2, <2>3, <3>3 DEF LinkInv, OneLinkWins
      <3> QED
        BY <3>1, <3>2, <3>3
    <2> QED
      BY <1>3, <2>2, <2>3, <2>4
  <1> QED
    BY <1>6, <1>7, <1>8, <1>9, <1>10 DEF LinkInv
\* A link is mailed after every reset that has burned the others.
LEMMA MailKeepsLinks ==
  ASSUME Types, LinkInv, NEW r \in Requests, MailLink(r) PROVE LinkInv'
  <1>1. /\ at[r].step = "mail" /\ at'[r].step = "done" /\ held' = held
        /\ \A q \in Requests : q # r => at'[q] = at[q]
    BY DEF MailLink, Goto, Types, TypeOK, Place
  <1>2. CASE link' = link
    BY <1>1, <1>2, GotoKeepsLinks DEF MailLink, Steps, ResetSteps, Burning
  <1>3. CASE link' # link
    <2>1. /\ \A l \in Names : l # r => link'[l] = link[l]
          /\ r \in Names /\ ~Spent(r)
          /\ link'[r].after = {q \in Requests : at[q].step \in {"revoke", "commit", "won"}}
      BY <1>1, <1>3, StandingAssumption DEF MailLink, Types, TypeOK, Names, Spent
    <2>2. \A n : Spent(n) => Spent(n)'
      BY <1>1, SpentStays
    <2>3. Spent(r)'
      BY <1>1 DEF Spent
    <2>4. \A q \in Requests : at'[q].step \in ResetSteps =>
             at'[q] = at[q] /\ at[q].ref # r /\ at[q].ref \in Names
      BY <1>1, <2>1 DEF LinkInv, Minted, ResetSteps
    <2>5. \A q \in Requests : \A l : HoldsLink(q, l)' => HoldsLink(q, l)
      BY <1>1, <2>4 DEF HoldsLink, Resetting, ResetSteps
    <2>6. Minted'
      BY <2>1, <2>2, <2>3, <2>4 DEF LinkInv, Minted
    <2>7. LinkLock'
      BY <1>1, <2>5 DEF LinkInv, LinkLock, Burning
    <2>8. RefOK'
      BY <2>1, <2>4 DEF LinkInv, RefOK, Resetting, ResetSteps
    <2>9. Burned'
      <3> SUFFICES ASSUME NEW q \in Requests, at'[q].step \in Burning \cup {"won"},
                          NEW m \in Names, link'[m] # None, link'[m].account = at'[q].account
                   PROVE  q \in link'[m].after \/ link'[m].state = "used" \/ HoldsLink(q, m)'
        BY DEF Burned
      <3>1. at'[q] = at[q]
        BY <2>4 DEF Burning, ResetSteps
      <3>2. CASE m = r
        BY <2>1, <3>1, <3>2 DEF Burning
      <3>3. CASE m # r
        BY <1>1, <2>1, <3>1, <3>3 DEF LinkInv, Burned, HoldsLink, Resetting
      <3> QED
        BY <3>2, <3>3
    <2>10. OneLinkWins'
      BY <2>1, <2>4 DEF LinkInv, OneLinkWins, ResetSteps
    <2> QED
      BY <2>6, <2>7, <2>8, <2>9, <2>10 DEF LinkInv
  <1> QED
    BY <1>2, <1>3

\* The cascade waits for the links that a transaction holds.
LEMMA DeleteKeepsLinks ==
  ASSUME Types, LinkInv, NEW r \in Requests, DeleteTenant(r) PROVE LinkInv'
  <1> DEFINE t == at[r].tenant
             Gone(a) == owner[t] # None /\ owner[t].id = a
  <1>1. /\ at[r].step = "rows" /\ at'[r].step = "sweep" /\ held' = held
        /\ \A q \in Requests : q # r => at'[q] = at[q]
    BY DEF DeleteTenant, Goto, Types, TypeOK, Place
  <1>2. \A l \in Names :
           /\ link[l] # None /\ Gone(link[l].account) => LinkFree(l)
           /\ link'[l] = IF link[l] # None /\ Gone(link[l].account) THEN None ELSE link[l]
    BY DEF DeleteTenant
  <1> HIDE DEF Gone
  <1>3. \A q \in Requests : Same(q) \/ Outside(q)
    BY <1>1 DEF Same, Outside, LinkInv, LinkLock, Burning, ResetSteps
  <1>4. LinksKeep
    BY <1>2 DEF LinksKeep
  <1>5. ASSUME NEW q \in Requests, Resetting(q)' PROVE link'[at'[q].ref] # None
    <2>1. at'[q] = at[q] /\ Resetting(q)
      BY <1>1, <1>5 DEF Resetting
    <2>2. at[q].ref \in Names /\ link[at[q].ref] # None /\ ~LinkFree(at[q].ref)
      BY <2>1 DEF LinkInv, Minted, RefOK, Resetting, ResetSteps, LinkFree, HoldsLink
    <2> QED
      BY <1>2, <2>1, <2>2
  <1> QED
    BY <1>3, <1>4, <1>5, StepKeepsLinks

LEMMA OtherKeepsLinks ==
  ASSUME Types, LinkInv, NEW r \in Requests,
         \/ Register(r) \/ Admin(r) \/ FindAccount(r) \/ OpenSession(r) \/ Change(r) \/ Manage(r)
         \/ BeginErasure(r) \/ DeleteKeys(r) \/ DeleteSessions(r) \/ SweepStores(r) \/ Refused(r)
  PROVE  LinkInv'
  <1>1. CASE Register(r) \/ Admin(r)
    <2>1. /\ at[r].step \notin {"done", "won"} \cup Burning
          /\ held' = held /\ link' = link
      BY <1>1 DEF Register, CheckEmail, Provision, InsertAccount, CommitRegister, Admin,
                  CreateTenant, TenantExists, InsertKey, rowVars, Burning
    <2>2. \E step \in Steps \ ResetSteps : Goto(r, step)
      BY <1>1 DEF Register, CheckEmail, Provision, InsertAccount, CommitRegister, Admin,
                  CreateTenant, TenantExists, InsertKey, Steps, ResetSteps
    <2> QED
      BY <2>1, <2>2, GotoKeepsLinks
  <1>2. CASE FindAccount(r) \/ BeginErasure(r)
    <2>1. /\ at[r].step \in {"lookup", "find", "erase"}
          /\ held' = held /\ link' = link
          /\ \A q \in Requests : q # r => at'[q] = at[q]
      BY <1>2 DEF FindAccount, BeginErasure, Goto, rowVars, Types, TypeOK
    <2>2. at'[r].step \in {"open", "mail", "keys", "done"}
      <3>1. CASE BeginErasure(r)
        BY <3>1 DEF BeginErasure, Goto, Types, TypeOK, Place
      <3>2. CASE FindAccount(r)
        <4> DEFINE next == IF at[r].step = "lookup" THEN "open" ELSE "mail"
        <4>1. PICK t \in Tenants :
                at' = [at EXCEPT ![r] = [@ EXCEPT !.step = next, !.tenant = t,
                                             !.account = owner[t].id]]
          BY <3>2 DEF FindAccount
        <4>2. next \in {"open", "mail"}
          OBVIOUS
        <4> HIDE DEF next
        <4> QED
          BY <4>1, <4>2 DEF Types, TypeOK, Place
      <3> QED
        BY <1>2, <3>1, <3>2
    <2>3. held[r].links = {}
      BY <2>1 DEF LinkInv, LinkLock, Burning
    <2> QED
      BY <2>1, <2>2, <2>3, OutsideKeepsLinks DEF Outside, Same, ResetSteps
  <1>3. CASE OpenSession(r) \/ Manage(r) \/ DeleteKeys(r) \/ DeleteSessions(r) \/ SweepStores(r)
    <2>1. /\ at[r].step \notin {"done", "won"} \cup Burning
          /\ held' = held /\ link' = link
      BY <1>3 DEF OpenSession, Manage, Logout, RevokeKey, DeleteKeys, DeleteSessions, SweepStores,
                  rowVars, Burning
    <2>2. \E step \in Steps \ ResetSteps : Goto(r, step)
      BY <1>3 DEF OpenSession, Manage, Logout, RevokeKey, DeleteKeys, DeleteSessions, SweepStores,
                  Steps, ResetSteps
    <2> QED
      BY <2>1, <2>2, GotoKeepsLinks
  <1>4. CASE Change(r)
    <2>1. /\ at[r].step \notin {"done", "won"} \cup Burning /\ link' = link
          /\ \E step \in Steps \ ResetSteps : Goto(r, step)
      BY <1>4 DEF Change, CheckCurrent, ChangePassword, EvictOthers, CommitChange, rowVars,
                  Steps, ResetSteps, Burning
    <2>2. held[r].links = {}
      BY <2>1 DEF LinkInv, LinkLock
    <2>3. \A q \in Requests : held'[q].links = held[q].links
      <3>1. CASE held' = held
        BY <3>1
      <3>2. CASE EvictOthers(r)
        BY <3>2 DEF EvictOthers, Types, TypeOK, Writes
      <3>3. CASE CommitChange(r)
        BY <2>2, <3>3 DEF CommitChange, Nothing, Types, TypeOK
      <3> QED
        BY <1>4, <3>1, <3>2, <3>3 DEF Change, CheckCurrent, ChangePassword
    <2> QED
      BY <2>1, <2>3, GotoKeepsLinks
  <1>5. CASE Refused(r)
    <2>1. /\ at[r].step \notin {"done", "won"} /\ link' = link
          /\ at'[r].step = "done" /\ held'[r].links = {}
          /\ \A q \in Requests : q # r => at'[q] = at[q] /\ held'[q] = held[q]
      BY <1>5 DEF Refused, Goto, Nothing, rowVars, Types, TypeOK, Place
    <2> QED
      BY <2>1, OutsideKeepsLinks DEF Outside, Same, ResetSteps
  <1> QED
    BY <1>1, <1>2, <1>3, <1>4, <1>5

LEMMA ExpiryKeepsLinks ==
  ASSUME Types, LinkInv, NEW n \in Names, SessionExpires(n) \/ LinkExpires(n) PROVE LinkInv'
  <1>1. at' = at /\ held' = held
    BY DEF SessionExpires, LinkExpires
  <1>2. \A l \in Names :
           /\ link'[l] = None <=> link[l] = None
           /\ link[l] # None =>
                /\ link'[l].account = link[l].account /\ link'[l].after = link[l].after
                /\ link'[l].state = "used" <=> link[l].state = "used"
    <2>1. CASE link' = link
      BY <2>1
    <2>2. CASE LinkExpires(n)
      <3>1. /\ link[n] # None /\ link[n] \in Link /\ link[n].state = "live"
            /\ link' = [link EXCEPT ![n] = [link[n] EXCEPT !.state = "expired"]]
        BY <2>2 DEF LinkExpires, Types, TypeOK
      <3>2. /\ [link[n] EXCEPT !.state = "expired"] \in Link
            /\ [link[n] EXCEPT !.state = "expired"].account = link[n].account
            /\ [link[n] EXCEPT !.state = "expired"].after = link[n].after
            /\ [link[n] EXCEPT !.state = "expired"].state = "expired"
        BY <3>1 DEF Link
      <3>3. [link[n] EXCEPT !.state = "expired"] # None
        BY <3>2, RowAssumption
      <3>4. "expired" # "used" /\ "live" # "used"
        OBVIOUS
      <3>5. link'[n] = [link[n] EXCEPT !.state = "expired"] /\ \A l \in Names : l # n => link'[l] = link[l]
        BY <3>1 DEF Types, TypeOK
      <3> QED
        BY <3>1, <3>2, <3>3, <3>4, <3>5
    <2> QED
      BY <2>1, <2>2 DEF SessionExpires
  <1>3. LinksKeep
    BY <1>2 DEF LinksKeep
  <1>4. \A q \in Requests : Resetting(q)' => link'[at'[q].ref] # None
    BY <1>1, <1>2 DEF LinkInv, RefOK, Minted, Resetting, ResetSteps
  <1> QED
    BY <1>1, <1>3, <1>4, StepKeepsLinks DEF Same

LEMMA NextKeepsLinks == Types /\ LinkInv /\ [Next]_vars => LinkInv'
  <1> SUFFICES ASSUME Types, LinkInv, [Next]_vars PROVE LinkInv'
    OBVIOUS
  <1>1. ASSUME NEW r \in Requests, Handle(r) PROVE LinkInv'
    BY <1>1, BeginKeepsLinks, RedeemKeepsLinks, OnwardKeepsLinks, BurnKeepsLinks, CommitKeepsLinks,
       MailKeepsLinks, DeleteKeepsLinks, OtherKeepsLinks DEF Handle, ByEmail, Reset, Erase
  <1>2. ASSUME NEW n \in Names, SessionExpires(n) \/ LinkExpires(n) PROVE LinkInv'
    BY <1>2, ExpiryKeepsLinks
  <1>3. CASE UNCHANGED vars
    BY <1>3 DEF vars, LinkInv, Minted, Spent, LinkLock, HoldsLink, Resetting, RefOK, Burned,
                OneLinkWins
  <1> QED
    BY <1>1, <1>2, <1>3 DEF Next

\* "Ask three times, use one, and the other two links are dead": two resets of one
\* account both succeed only with a link mailed after the other had burned the rest,
\* however many run at once and whatever they run against (reset_password).
THEOREM OneLinkWinsHolds == Spec => []OneLinkWins
  <1>1. Init => LinkInv
    <2> SUFFICES ASSUME Init PROVE LinkInv
      OBVIOUS
    <2>1. \A r \in Requests : at[r].step = "new" /\ held[r].links = {}
      BY DEF Init, Nowhere, Nothing
    <2>2. \A n \in Names : link[n] # None => n \in Standing
      BY DEF Init
    <2> QED
      BY <2>1, <2>2 DEF LinkInv, Minted, Spent, LinkLock, HoldsLink, Resetting, RefOK, Burned,
                        OneLinkWins, ResetSteps, Burning
  <1>2. (Types /\ LinkInv) /\ [Next]_vars => (Types /\ LinkInv)'
    BY NextTypes, NextKeepsLinks
  <1>3. Types /\ LinkInv => OneLinkWins
    BY DEF LinkInv
  <1> QED
    BY <1>1, <1>2, <1>3, InitTypes, PTL DEF Spec
=============================================================================
