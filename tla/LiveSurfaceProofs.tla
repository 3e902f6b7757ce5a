-------------------------- MODULE LiveSurfaceProofs --------------------------
(***************************************************************************)
(* What a live component keeps, for any requests, skill lists, policies,   *)
(* answers of the bridge, publishers and folders.  The parts of            *)
(* LiveSurface share a next-state relation only: each lemma of a part is   *)
(* about the steps of that part.                                           *)
(***************************************************************************)
EXTENDS LiveSurface, SequenceTheorems, TLAPS

(* The steps of each part.                                                 *)
EmitStep(q) ==
  \/ \E list \in SkillList \cup {NoList, BadList}, flushes \in BOOLEAN :
       StartTrace(q, list, flushes)
  \/ Start(q) \/ Propagate(q) \/ OpeningFails(q)
  \/ \E k \in DOMAIN spans, list \in SkillList \cup {NoList, BadList} : Open(q, k, list)
  \/ BodyRaises(q) \/ BodyCatches(q) \/ FlushFails(q)
  \/ \E s \in DOMAIN spans : Score(q, s)
  \/ LeaveBlock(q) \/ LeaveTrace(q) \/ Finally(q)
EmitSteps ==
  \/ \E q \in Request : EmitStep(q)
  \/ ExplicitFlush \/ ProcessDies \/ \E s \in DOMAIN spans : Worker(s)

SpendingStep(q) ==
  \/ \E p \in Provider \cup {"other"}, configured \in BOOLEAN : Ask(q, p, configured)
  \/ \E a \in Bridge, wait \in Waits : Headers(q, a, wait)
  \/ \E wait \in Waits : ReadPart(q, wait) \/ EndOfBody(q, wait)
  \/ TransportFails(q)
  \/ check' = [check EXCEPT ![q] = Unasked]
SpendingSteps ==
  \/ \E q \in Request : SpendingStep(q)
  \/ check' = [q \in Caller |-> Unasked]

PublishStep(p) ==
  \/ \E files \in Bundle \cup {NotABundle}, v5 \in BOOLEAN, labels \in Asks :
       StartPublish(p, files, labels, v5)
  \/ CallFails(p) \/ Look(p) \/ Create(p) \/ SkipLabels(p) \/ SetLabels(p)

LEMMA StepParts ==
  ASSUME [Next]_vars
  PROVE  /\ EmitSteps \/ UNCHANGED emitVars
         /\ SpendingSteps \/ UNCHANGED check
         /\ (\E p \in Publisher : PublishStep(p)) \/ UNCHANGED publishVars
<1> USE DEF EmitSteps, EmitStep, SpendingSteps, SpendingStep
<1>1. ASSUME NEW q \in Request, Arrive(q)
      PROVE  UNCHANGED <<emitVars, check, publishVars>>
  BY <1>1 DEF Arrive
<1>2. ASSUME NEW q \in Request, Emits(q)
      PROVE  EmitStep(q) /\ UNCHANGED <<check, publishVars>>
  BY <1>2 DEF Emits
<1>3. ASSUME NEW q \in Request, Checks(q)
      PROVE  SpendingStep(q) /\ UNCHANGED <<emitVars, publishVars>>
  BY <1>3 DEF Checks
<1>4. ASSUME NEW q \in Request, Dispatch(q) \/ AnswerRequest(q)
      PROVE  SpendingStep(q) /\ UNCHANGED <<emitVars, publishVars>>
  BY <1>4 DEF Dispatch, AnswerRequest
<1>5. ASSUME Flusher
      PROVE  EmitSteps /\ UNCHANGED <<check, publishVars>>
  BY <1>5 DEF Flusher
<1>6. ASSUME Dies
      PROVE  EmitSteps /\ SpendingSteps /\ UNCHANGED publishVars
  BY <1>6 DEF Dies
<1>7. ASSUME NEW p \in Publisher, Publishes(p)
      PROVE  PublishStep(p) /\ UNCHANGED <<emitVars, check>>
  BY <1>7 DEF Publishes, PublishStep
<1>8. CASE UNCHANGED vars
  BY <1>8 DEF vars
<1> QED
  BY <1>1, <1>2, <1>3, <1>4, <1>5, <1>6, <1>7, <1>8 DEF Next

---------------------------------------------------------------------------
(* Published skills.                                                       *)

Labels == SUBSET (Label \cup {""})
Kept == [files : Bundle, labels : Labels, by : Publisher, seen : Nat]
Going == {"look", "create", "labels"}
Publish == [at : Finished \cup Going, files : Bundle \cup {NotABundle}, labels : Labels,
            seen : Nat, found : Nat, version : Nat, held : Labels]
PublishType ==
  /\ versions \in Seq(Kept) /\ publish \in [Publisher -> Publish]
  /\ abreast \in Seq(SUBSET Publisher) /\ Len(abreast) = Len(versions)

(* A publish that has a version has its files, and knows its labels as     *)
(* long as nobody else has set them since; one that is about to create has *)
(* found other files on the last version it saw.                           *)
Follows(p) ==
  LET v == publish[p].version
      holds == IF publish[p].at = "labels" THEN publish[p].held ELSE publish[p].labels IN
  /\ publish[p].at \in Going => publish[p].files \in Bundle
  /\ publish[p].at \in {"labels", "returned"} =>
       /\ v \in 1..Len(versions) /\ versions[v].files = publish[p].files
       /\ p \in abreast[v] => versions[v].labels = holds
  /\ publish[p].at = "create" =>
       /\ publish[p].seen <= Len(versions)
       /\ publish[p].seen = Len(versions) /\ versions # <<>> =>
            versions[Len(versions)].files # publish[p].files
PublishInv ==
  /\ PublishType /\ NoNeedlessVersion
  /\ \A p \in Publisher : Follows(p)

LEMMA RequestedLabels ==
  ASSUME NEW labels \in Asks
  PROVE  Requested(labels) \in Labels
<1>1. \A k \in DOMAIN labels : labels[k] \in Label \cup {"", Latest}
  <2>1. labels \in Seq(Label \cup {"", Latest})
    BY BundleAssumption
  <2> QED
    BY <2>1, LenProperties, ElementOfSeq
<1> QED
  BY <1>1 DEF Requested, Labels

(* A step of one publisher that leaves the versions alone.                 *)
LEMMA PublisherMoves ==
  ASSUME PublishInv, NEW p \in Publisher, NEW new \in Publish,
         publish' = [publish EXCEPT ![p] = new], UNCHANGED <<versions, abreast>>, Follows(p)'
  PROVE  PublishInv'
<1>1. publish'[p] = new /\ \A r \in Publisher \ {p} : publish'[r] = publish[r]
  BY DEF PublishInv, PublishType
<1>2. PublishType'
  BY DEF PublishInv, PublishType
<1>3. \A r \in Publisher : Follows(r)'
  BY <1>1 DEF PublishInv, Follows
<1> QED
  BY <1>2, <1>3 DEF PublishInv, NoNeedlessVersion

LEMMA StartPublishStep ==
  ASSUME PublishInv, NEW p \in Publisher, NEW files \in Bundle \cup {NotABundle},
         NEW v5 \in BOOLEAN, NEW labels \in Asks,
         StartPublish(p, files, labels, v5)
  PROVE  PublishInv'
<1>1. PICK at \in {"refused", "look"} :
        /\ publish' = [publish EXCEPT ![p] =
             [Quiet EXCEPT !.at = at, !.files = files, !.labels = Requested(labels)]]
        /\ at = "look" => files \in Bundle
  BY DEF StartPublish
<1> DEFINE new == [Quiet EXCEPT !.at = at, !.files = files, !.labels = Requested(labels)]
<1>2. new \in Publish /\ new.at = at /\ new.files = files
  BY RequestedLabels DEF Quiet, Publish, Finished, Going, Labels
<1>3. publish'[p] = new
  BY <1>1 DEF PublishInv, PublishType
<1>4. Follows(p)'
  BY <1>1, <1>2, <1>3 DEF Follows, Going
<1> QED
  BY <1>1, <1>2, <1>4, PublisherMoves DEF StartPublish

LEMMA LeavesStep ==
  ASSUME PublishInv, NEW p \in Publisher, NEW how \in {"raised", "returned"},
         Leaves(p, how), UNCHANGED <<versions, abreast>>,
         how = "returned" => publish[p].at = "labels" /\ publish[p].held = publish[p].labels
  PROVE  PublishInv'
<1> DEFINE new == [publish[p] EXCEPT !.at = how]
<1>1. publish[p] \in Publish /\ Follows(p)
  BY DEF PublishInv, PublishType
<1>2. /\ new \in Publish /\ new.at = how /\ new.files = publish[p].files
      /\ new.version = publish[p].version /\ new.labels = publish[p].labels
  BY <1>1 DEF Publish, Finished
<1>3. publish' = [publish EXCEPT ![p] = new] /\ publish'[p] = new
  BY DEF Leaves, PublishInv, PublishType
<1>4. Follows(p)'
  BY <1>1, <1>2, <1>3 DEF Follows, Going
<1> QED
  BY <1>2, <1>3, <1>4, PublisherMoves

(* Finding the files on the last version puts the publisher abreast of it. *)
LEMMA LookStep ==
  ASSUME PublishInv, NEW p \in Publisher, Look(p)
  PROVE  PublishInv'
<1> DEFINE n == Len(versions)
           new == [publish[p] EXCEPT !.seen = n,
                     !.at = IF SameFiles(p) THEN "labels" ELSE "create",
                     !.found = IF SameFiles(p) THEN n ELSE 0,
                     !.version = IF SameFiles(p) THEN n ELSE 0,
                     !.held = IF SameFiles(p) THEN versions[n].labels ELSE {}]
<1>1. /\ publish[p] \in Publish /\ publish[p].files \in Bundle /\ n \in Nat
      /\ versions \in Seq(Kept) /\ abreast \in Seq(SUBSET Publisher) /\ Len(abreast) = n
      /\ DOMAIN versions = 1..n
  BY DEF Look, PublishInv, PublishType, Follows, Going
<1>2. SameFiles(p) => n \in 1..n /\ versions[n] \in Kept
  BY <1>1 DEF SameFiles
<1>3. publish' = [publish EXCEPT ![p] = new] /\ UNCHANGED versions
  BY DEF Look, PublishInv, PublishType
<1>4. CASE SameFiles(p)
  <2>1. /\ new \in Publish /\ new.at = "labels" /\ new.version = n
        /\ new.held = versions[n].labels /\ new.files = publish[p].files
    BY <1>1, <1>2, <1>4 DEF Publish, Going, Kept
  <2>2. abreast' = [abreast EXCEPT ![n] = abreast[n] \cup {p}]
    BY <1>4 DEF Look
  <2>3. /\ abreast' \in Seq(SUBSET Publisher) /\ Len(abreast') = n
        /\ abreast'[n] = abreast[n] \cup {p}
        /\ \A k \in 1..n : k # n => abreast'[k] = abreast[k]
    BY <1>1, <1>2, <1>4, <2>2, ExceptSeq
  <2>4. publish'[p] = new /\ \A r \in Publisher \ {p} : publish'[r] = publish[r]
    BY <1>3 DEF PublishInv, PublishType
  <2> HIDE DEF new
  <2>5. Follows(p)'
    BY <1>2, <1>3, <1>4, <2>1, <2>4, <1>1 DEF Follows, SameFiles, Going
  <2>6. ASSUME NEW r \in Publisher \ {p} PROVE Follows(r)'
    <3>1. Follows(r)
      BY DEF PublishInv
    <3> QED
      BY <1>1, <1>3, <2>3, <2>4, <3>1 DEF Follows, Going
  <2>7. PublishType'
    BY <1>1, <1>3, <2>1, <2>3 DEF PublishInv, PublishType
  <2>8. NoNeedlessVersion'
    BY <1>3 DEF PublishInv, NoNeedlessVersion
  <2> QED
    BY <2>5, <2>6, <2>7, <2>8 DEF PublishInv
<1>5. CASE ~SameFiles(p)
  <2>1. /\ new \in Publish /\ new.at = "create" /\ new.seen = n
        /\ new.files = publish[p].files
    BY <1>1, <1>5 DEF Publish, Going, Labels
  <2>2. publish'[p] = new
    BY <1>3 DEF PublishInv, PublishType
  <2> HIDE DEF new
  <2>3. Follows(p)'
    BY <1>1, <1>3, <1>5, <2>1, <2>2 DEF Follows, SameFiles, Going
  <2>4. UNCHANGED abreast
    BY <1>5 DEF Look
  <2> QED
    BY <1>3, <2>1, <2>3, <2>4, PublisherMoves
<1> QED
  BY <1>4, <1>5

(* A version is created by somebody who had found other files on the last  *)
(* version, unless another was created since.                              *)
LEMMA CreateStep ==
  ASSUME PublishInv, NEW p \in Publisher, Create(p)
  PROVE  PublishInv'
<1> DEFINE n == Len(versions)
           fresh == [files |-> publish[p].files, labels |-> {}, by |-> p,
                     seen |-> publish[p].seen]
<1>1. /\ publish[p] \in Publish /\ publish[p].files \in Bundle /\ publish[p].at = "create"
      /\ n \in Nat /\ DOMAIN versions = 1..n /\ versions \in Seq(Kept)
      /\ abreast \in Seq(SUBSET Publisher) /\ Len(abreast) = n
  BY DEF Create, PublishInv, PublishType, Follows, Going
<1>2. fresh \in Kept
  BY <1>1 DEF Kept, Publish, Labels
<1>3. /\ versions' = Append(versions, fresh) /\ abreast' = Append(abreast, {p})
  BY DEF Create
<1>4. /\ versions' \in Seq(Kept) /\ Len(versions') = n + 1 /\ versions'[n + 1] = fresh
      /\ \A k \in 1..n : versions'[k] = versions[k]
      /\ abreast' \in Seq(SUBSET Publisher) /\ Len(abreast') = n + 1 /\ abreast'[n + 1] = {p}
      /\ \A k \in 1..n : abreast'[k] = abreast[k]
  BY <1>1, <1>2, <1>3
<1> HIDE DEF fresh
<1>5. PICK new \in Publish :
        /\ publish' = [publish EXCEPT ![p] = new]
        /\ \/ /\ new.at = "labels" /\ new.version = n + 1 /\ new.held = {}
              /\ new.files = publish[p].files
           \/ new.at = "raised"
  <2>1. CASE Leaves(p, "raised")
    <3>1. publish' = [publish EXCEPT ![p] = [publish[p] EXCEPT !.at = "raised"]]
      BY <2>1 DEF Leaves, PublishInv, PublishType
    <3>2. /\ [publish[p] EXCEPT !.at = "raised"] \in Publish
          /\ [publish[p] EXCEPT !.at = "raised"].at = "raised"
      BY <1>1 DEF Publish, Finished
    <3> QED
      BY <3>1, <3>2
  <2>2. CASE ~Leaves(p, "raised")
    <3> DEFINE new == [publish[p] EXCEPT !.at = "labels", !.version = n + 1, !.held = {}]
    <3>1. publish' = [publish EXCEPT ![p] = new]
      BY <2>2 DEF Create, PublishInv, PublishType
    <3>2. /\ new \in Publish /\ new.at = "labels" /\ new.version = n + 1 /\ new.held = {}
          /\ new.files = publish[p].files
      <4>1. n + 1 \in Nat /\ {} \in Labels
        BY <1>1 DEF Labels
      <4> QED
        BY <1>1, <4>1 DEF Publish, Going
    <3> HIDE DEF new
    <3> QED
      BY <3>1, <3>2
  <2> QED
    BY <2>1, <2>2
<1>6. publish'[p] = new /\ \A r \in Publisher \ {p} : publish'[r] = publish[r]
  BY <1>5 DEF PublishInv, PublishType
<1>7. Follows(p)'
  <2>1. fresh.files = publish[p].files /\ fresh.labels = {}
    BY DEF fresh
  <2>2. CASE new.at = "raised"
    BY <1>6, <2>2 DEF Follows, Going
  <2>3. CASE new.at = "labels"
    <3>1. n + 1 \in 1..Len(versions') /\ versions'[n + 1].files = publish[p].files
          /\ versions'[n + 1].labels = {}
      BY <1>1, <1>4, <2>1
    <3>2. /\ publish'[p].at = "labels" /\ publish'[p].version = n + 1 /\ publish'[p].held = {}
          /\ publish'[p].files = publish[p].files
      BY <1>5, <1>6, <2>3
    <3> QED
      BY <1>1, <3>1, <3>2 DEF Follows, Going
  <2> QED
    BY <1>5, <2>2, <2>3
<1>8. ASSUME NEW r \in Publisher \ {p} PROVE Follows(r)'
  <2>1. Follows(r) /\ publish'[r] = publish[r] /\ publish[r] \in Publish
    BY <1>6 DEF PublishInv, PublishType
  <2>2. publish[r].at = "create" => publish[r].seen <= n /\ publish[r].seen # n + 1
    BY <1>1, <2>1 DEF Follows, Publish
  <2>3. publish[r].at \in {"labels", "returned"} => publish[r].version \in 1..n
    BY <2>1 DEF Follows
  <2> QED
    BY <1>1, <1>4, <2>1, <2>2, <2>3 DEF Follows, Publish
<1>9. NoNeedlessVersion'
  <2>1. DOMAIN versions' = 1..n + 1
    BY <1>1, <1>4
  <2>2. ASSUME NEW v \in 1..n, v > 1, versions'[v].files = versions'[v - 1].files
        PROVE  versions'[v].seen < v - 1
    <3>1. v - 1 \in 1..n
      BY <1>1, <2>2
    <3>2. versions[v].files = versions[v - 1].files /\ versions'[v] = versions[v]
      BY <1>4, <2>2, <3>1
    <3> QED
      BY <1>1, <2>2, <3>2 DEF PublishInv, NoNeedlessVersion
  <2>3. ASSUME n + 1 > 1, versions'[n + 1].files = versions'[n].files
        PROVE  versions'[n + 1].seen < n
    <3>1. versions'[n + 1].files = publish[p].files /\ versions'[n + 1].seen = publish[p].seen
      BY <1>4 DEF fresh
    <3>2. versions'[n] = versions[n] /\ versions # <<>>
      BY <1>1, <1>4, <2>3
    <3>3. /\ publish[p].seen <= n /\ publish[p].seen \in Nat
          /\ publish[p].seen = n => versions[n].files # publish[p].files
      BY <1>1, <3>2 DEF PublishInv, Follows, Publish
    <3>4. publish[p].seen # n
      BY <2>3, <3>1, <3>2, <3>3
    <3> QED
      BY <1>1, <3>1, <3>3, <3>4
  <2>4. ASSUME NEW v \in 1..n + 1 PROVE v \in 1..n \/ v = n + 1
    BY <1>1
  <2>5. n + 1 - 1 = n
    BY <1>1
  <2> QED
    BY <2>1, <2>2, <2>3, <2>4, <2>5 DEF NoNeedlessVersion
<1>10. PublishType'
  BY <1>4, <1>5 DEF PublishInv, PublishType
<1> QED
  BY <1>7, <1>8, <1>9, <1>10 DEF PublishInv

(* Setting the labels leaves nobody else abreast of the version, nor of    *)
(* one that lost a label to it.                                            *)
LEMMA SetLabelsStep ==
  ASSUME PublishInv, NEW p \in Publisher, SetLabels(p)
  PROVE  PublishInv'
<1> DEFINE n == Len(versions)
           v == publish[p].version
           kept(w) == IF w = v THEN publish[p].labels
                      ELSE versions[w].labels \ publish[p].labels
<1>1. /\ publish[p] \in Publish /\ publish[p].at = "labels" /\ v \in 1..n
      /\ versions[v].files = publish[p].files /\ publish[p].files \in Bundle
      /\ n \in Nat /\ DOMAIN versions = 1..n /\ versions \in Seq(Kept)
      /\ abreast \in Seq(SUBSET Publisher) /\ Len(abreast) = n
  BY DEF SetLabels, PublishInv, PublishType, Follows, Going
<1>2. ASSUME NEW w \in 1..n
      PROVE  /\ versions'[w] \in Kept /\ versions'[w].files = versions[w].files
             /\ versions'[w].seen = versions[w].seen /\ versions'[w].labels = kept(w)
  <2>1. versions[w] \in Kept /\ kept(w) \in Labels
    <3>1. versions[w] \in Kept
      BY <1>1, ElementOfSeq
    <3>2. versions[w].labels \in Labels /\ publish[p].labels \in Labels
      BY <1>1, <3>1 DEF Kept, Publish
    <3>3. versions[w].labels \ publish[p].labels \in Labels
      BY <3>2 DEF Labels
    <3> QED
      BY <3>1, <3>2, <3>3
  <2>2. versions'[w] = [versions[w] EXCEPT !.labels = kept(w)]
    BY <1>1 DEF SetLabels
  <2> HIDE DEF kept
  <2> QED
    BY <2>1, <2>2 DEF Kept
<1>3. ASSUME NEW w \in 1..n
      PROVE  /\ abreast'[w] \in SUBSET Publisher /\ abreast'[v] = {p}
             /\ \A r \in Publisher : r # p /\ r \in abreast'[w] =>
                  r \in abreast[w] /\ kept(w) = versions[w].labels
  <2> DEFINE set == publish[p].labels
             held == versions[w].labels
  <2>1. abreast' = [k \in 1..n |-> IF k = v THEN {p}
                     ELSE IF versions[k].labels \cap set = {} THEN abreast[k] ELSE {}]
    BY <1>1 DEF SetLabels
  <2>2. /\ abreast'[v] = {p}
        /\ abreast'[w] = IF w = v THEN {p} ELSE IF held \cap set = {} THEN abreast[w] ELSE {}
    BY <1>1, <2>1
  <2>3. abreast[w] \in SUBSET Publisher
    BY <1>1, ElementOfSeq
  <2>4. held \cap set = {} => held \ set = held
    OBVIOUS
  <2> HIDE DEF set, held
  <2>5. w # v => kept(w) = held \ set
    BY DEF set, held
  <2> HIDE DEF kept
  <2> QED
    BY <2>2, <2>3, <2>4, <2>5 DEF held
<1> HIDE DEF kept
<1>4. /\ versions' \in Seq(Kept) /\ Len(versions') = n
      /\ abreast' \in Seq(SUBSET Publisher) /\ Len(abreast') = n
  <2>1. /\ versions' = [w \in 1..n |-> versions'[w]]
        /\ abreast' = [w \in 1..n |-> abreast'[w]]
    BY <1>1 DEF SetLabels
  <2>2. versions' \in [1..n -> Kept] /\ abreast' \in [1..n -> SUBSET Publisher]
    BY <1>2, <1>3, <2>1
  <2> QED
    BY <1>1, <2>2
<1>5. /\ \A k \in 1..n : versions'[k].files = versions[k].files
      /\ \A k \in 1..n : versions'[k].seen = versions[k].seen
  BY <1>2
<1>6. PICK how \in {"returned", "raised"} :
        publish' = [publish EXCEPT ![p] = [publish[p] EXCEPT !.at = how]]
  BY DEF SetLabels, Leaves, PublishInv, PublishType
<1> DEFINE new == [publish[p] EXCEPT !.at = how]
<1>7. /\ new \in Publish /\ new.at = how /\ new.version = v
      /\ new.labels = publish[p].labels /\ new.files = publish[p].files
  BY <1>1 DEF Publish, Finished
<1>8. publish'[p] = new /\ \A r \in Publisher \ {p} : publish'[r] = publish[r]
  BY <1>6 DEF PublishInv, PublishType
<1> HIDE DEF new
<1>9. Follows(p)'
  <2>1. versions'[v].labels = publish[p].labels
    BY <1>1, <1>2 DEF kept
  <2> QED
    BY <1>1, <1>2, <1>4, <1>7, <1>8, <2>1 DEF Follows, Going
<1>10. ASSUME NEW r \in Publisher \ {p} PROVE Follows(r)'
  <2>1. Follows(r) /\ publish'[r] = publish[r]
    BY <1>8 DEF PublishInv
  <2>2. DOMAIN versions' = 1..n /\ (versions' # <<>> => n \in 1..n /\ versions # <<>>)
    BY <1>1, <1>4
  <2>3. \A w \in 1..n : r \in abreast'[w] =>
          r \in abreast[w] /\ versions'[w].labels = versions[w].labels
    BY <1>2, <1>3
  <2> QED
    BY <1>1, <1>4, <1>5, <2>1, <2>2, <2>3 DEF Follows
<1>11. NoNeedlessVersion'
  <2>1. DOMAIN versions' = 1..n
    BY <1>1, <1>4
  <2>2. ASSUME NEW w \in 1..n, w > 1, versions'[w].files = versions'[w - 1].files
        PROVE  versions'[w].seen < w - 1
    <3>1. w - 1 \in 1..n
      BY <1>1, <2>2
    <3>2. versions[w].files = versions[w - 1].files
      BY <1>5, <2>2, <3>1
    <3> QED
      BY <1>1, <1>5, <2>2, <3>2 DEF PublishInv, NoNeedlessVersion
  <2> QED
    BY <2>1, <2>2 DEF NoNeedlessVersion
<1>12. PublishType'
  BY <1>4, <1>6, <1>7 DEF PublishInv, PublishType, new
<1> QED
  BY <1>9, <1>10, <1>11, <1>12 DEF PublishInv

LEMMA PublishInvStep ==
  ASSUME PublishInv, \E p \in Publisher : PublishStep(p)
  PROVE  PublishInv'
<1>1. PICK p \in Publisher : PublishStep(p)
  OBVIOUS
<1>2. CASE CallFails(p)
  BY <1>2, LeavesStep DEF CallFails
<1>3. CASE SkipLabels(p)
  BY <1>3, LeavesStep DEF SkipLabels, LabelsDiffer
<1> QED
  BY <1>1, <1>2, <1>3, StartPublishStep, LookStep, CreateStep, SetLabelsStep DEF PublishStep

LEMMA AsAsked == PublishInv => PublishedAsAsked
BY DEF PublishInv, PublishType, PublishedAsAsked, Follows

---------------------------------------------------------------------------
(* The spending check.                                                     *)

Check == [at : Checked \cup {"sent", "body"}, provider : Provider \cup {"other", "none"},
          answer : Answer \cup {NoAnswer}, read : Nat, elapsed : Nat,
          heard : Nat, reason : Denials \cup {"none"}]

(* What is behind a permit.                                                *)
Backed(c) ==
  /\ c.answer \in {[Permit(c.provider, s) EXCEPT !.size = n] : s \in Source, n \in 1..Parts}
  /\ c.heard <= Deadline

(* A body is read within its size, and every byte of it in time.           *)
Sound(c) ==
  /\ c.at = "sent" => c.provider \in Provider /\ c.read = 0 /\ c.heard = 0
  /\ c.at = "body" =>
       /\ c.provider \in Provider /\ c.answer \in Answer
       /\ c.read <= Parts /\ c.read <= c.answer.size
       /\ c.heard <= Deadline
  /\ c.at = "allowed" => Backed(c)
CheckInv == check \in [Caller -> Check] /\ \A q \in Caller : Sound(check[q])

LEMMA CheckMoves ==
  ASSUME CheckInv, NEW q \in Caller, NEW new \in Check, Sound(new),
         check' = [check EXCEPT ![q] = new]
  PROVE  CheckInv'
BY DEF CheckInv

LEMMA UnaskedIsSound == Unasked \in Check /\ Sound(Unasked)
BY DEF Unasked, Check, Checked, Sound, NoAnswer, Denials

LEMMA WaitsAreTimes == Waits \subseteq Nat
BY SpendingAssumption DEF Waits

(* A permit names its provider and is whole, or it is none.                *)
LEMMA VerdictIsPermit ==
  ASSUME NEW a \in Answer, NEW p \in Provider, Verdict(a, p) = "allowed"
  PROVE  a = [Permit(p, a.source) EXCEPT !.size = a.size] /\ a.source \in Source
<1>1. ~Denies(a) /\ ~Unverifiable(a, p)
  BY DEF Verdict
<1>2. /\ a.status = 200 /\ a.object /\ a.allowed /\ a.provider = p /\ a.reason = "none"
      /\ a.scope = ScopeOf(a.source) /\ a.zone /\ a.source \in Source
  BY <1>1 DEF Unverifiable, Answer
<1> DEFINE b == Permit(p, a.source)
           d == [b EXCEPT !.size = a.size]
<1>3. /\ b \in Answer /\ b.status = 200 /\ b.object /\ b.allowed /\ b.provider = p
      /\ b.reason = "none" /\ b.scope = ScopeOf(a.source) /\ b.zone /\ b.source = a.source
  BY <1>2, SpendingAssumption DEF Permit, Answer
<1> HIDE DEF b
<1>4. /\ d \in Answer /\ d.status = 200 /\ d.object /\ d.allowed /\ d.provider = p
      /\ d.reason = "none" /\ d.scope = ScopeOf(a.source) /\ d.zone /\ d.source = a.source
      /\ d.size = a.size
  BY <1>3 DEF Answer
<1> HIDE DEF d
<1>5. a = d
  BY <1>2, <1>4 DEF Answer
<1> QED
  BY <1>2, <1>5 DEF d, b

LEMMA ReadPartStep ==
  ASSUME CheckInv, NEW q \in Caller, NEW wait \in Waits, ReadPart(q, wait)
  PROVE  CheckInv'
<1> DEFINE c == check[q]
           at == IF TooLong(q) \/ Late(q, wait) THEN "unavailable" ELSE "body"
           new == [c EXCEPT !.read = c.read + 1, !.elapsed = c.elapsed + wait,
                            !.heard = c.elapsed + wait, !.at = at]
<1>1. /\ c \in Check /\ c.at = "body" /\ c.read < c.answer.size /\ c.answer \in Answer
      /\ c.provider \in Provider /\ c.read <= Parts
  BY DEF ReadPart, CheckInv, Sound
<1>2. check' = [check EXCEPT ![q] = new]
  BY <1>1 DEF ReadPart, CheckInv
<1>3. c.read \in Nat /\ c.elapsed \in Nat /\ wait \in Nat /\ c.answer.size \in Nat
  BY <1>1, WaitsAreTimes, SpendingAssumption DEF Check, Answer
<1>4. at = "body" => c.read + 1 <= Parts /\ c.elapsed + wait <= Deadline
  BY <1>3, SpendingAssumption DEF TooLong, Late
<1>5. at \in {"unavailable", "body"}
  OBVIOUS
<1> HIDE DEF at
<1> DEFINE read == c.read + 1
           elapsed == c.elapsed + wait
<1>8. read \in Nat /\ elapsed \in Nat /\ at \in Checked \cup {"sent", "body"}
  BY <1>3, <1>5 DEF Checked
<1> HIDE DEF read, elapsed
<1>9. LET k == [c EXCEPT !.read = read, !.elapsed = elapsed, !.heard = elapsed, !.at = at]
      IN  /\ k \in Check /\ k.at = at /\ k.read = read /\ k.heard = elapsed
          /\ k.answer = c.answer /\ k.provider = c.provider
  BY <1>1, <1>8 DEF Check
<1> USE DEF read, elapsed
<1>6. /\ new \in Check /\ new.at = at /\ new.read = c.read + 1 /\ new.heard = c.elapsed + wait
      /\ new.answer = c.answer /\ new.provider = c.provider
  BY <1>9
<1> HIDE DEF new
<1>7. Sound(new)
  BY <1>1, <1>3, <1>4, <1>5, <1>6 DEF Sound
<1> QED
  BY <1>2, <1>6, <1>7, CheckMoves

LEMMA EndOfBodyStep ==
  ASSUME CheckInv, NEW q \in Caller, NEW wait \in Waits, EndOfBody(q, wait)
  PROVE  CheckInv'
<1> DEFINE c == check[q]
           at == Verdict(c.answer, c.provider)
           reason == IF Denies(c.answer) THEN DenialReason(c.answer) ELSE "none"
           new == [c EXCEPT !.elapsed = c.elapsed + wait, !.at = at, !.reason = reason]
<1>1. /\ c \in Check /\ c.at = "body" /\ c.read = c.answer.size /\ c.answer \in Answer
      /\ c.provider \in Provider /\ c.read <= Parts /\ c.heard <= Deadline
  BY DEF EndOfBody, CheckInv, Sound
<1>2. check' = [check EXCEPT ![q] = new]
  BY <1>1 DEF EndOfBody, CheckInv
<1>3. c.elapsed \in Nat /\ wait \in Nat /\ c.answer.size \in 1..Parts + 1
  BY <1>1, WaitsAreTimes, SpendingAssumption DEF Check, Answer
<1>4. c.answer.size \in 1..Parts
  BY <1>1, <1>3, SpendingAssumption
<1>5. at \in {"denied", "unavailable", "allowed"} /\ reason \in Denials \cup {"none"}
  BY DEF Verdict, DenialReason, Denials
<1>6. at = "allowed" => /\ c.answer = [Permit(c.provider, c.answer.source) EXCEPT !.size = c.answer.size]
                        /\ c.answer.source \in Source
  BY <1>1, VerdictIsPermit
<1> HIDE DEF at, reason
<1> DEFINE elapsed == c.elapsed + wait
<1>9. elapsed \in Nat /\ at \in Checked \cup {"sent", "body"}
  BY <1>3, <1>5 DEF Checked
<1> HIDE DEF elapsed
<1>10. LET k == [c EXCEPT !.elapsed = elapsed, !.at = at, !.reason = reason]
       IN  /\ k \in Check /\ k.at = at /\ k.heard = c.heard
           /\ k.answer = c.answer /\ k.provider = c.provider
  BY <1>1, <1>5, <1>9 DEF Check
<1> USE DEF elapsed
<1>7. /\ new \in Check /\ new.at = at /\ new.heard = c.heard
      /\ new.answer = c.answer /\ new.provider = c.provider
  BY <1>10
<1> HIDE DEF new
<1>8. Sound(new)
  BY <1>1, <1>4, <1>5, <1>6, <1>7 DEF Sound, Backed
<1> QED
  BY <1>2, <1>7, <1>8, CheckMoves

LEMMA CheckInvStep ==
  ASSUME CheckInv, SpendingSteps
  PROVE  CheckInv'
<1>1. CASE check' = [q \in Caller |-> Unasked]
  BY <1>1, UnaskedIsSound DEF CheckInv
<1>2. ASSUME NEW q \in Request, SpendingStep(q) PROVE CheckInv'
  <2>1. q \in Caller /\ check[q] \in Check /\ Sound(check[q])
    BY BridgeAssumption DEF CheckInv
  <2>2. CASE check' = [check EXCEPT ![q] = Unasked]
    BY <2>1, <2>2, UnaskedIsSound, CheckMoves
  <2>3. ASSUME NEW p \in Provider \cup {"other"}, NEW configured \in BOOLEAN,
               Ask(q, p, configured)
        PROVE  CheckInv'
    <3> DEFINE at == IF configured /\ p \in Provider THEN "sent" ELSE "unavailable"
               new == [Unasked EXCEPT !.provider = p, !.at = at]
    <3>1. at \in {"sent", "unavailable"} /\ (at = "sent" => p \in Provider)
      OBVIOUS
    <3>2. check' = [check EXCEPT ![q] = new]
      BY <2>3 DEF Ask
    <3> HIDE DEF at
    <3>3. new \in Check /\ new.at = at /\ new.provider = p /\ new.read = 0 /\ new.heard = 0
      BY <3>1 DEF Unasked, Check, Checked, Denials
    <3>4. Sound(new)
      BY <3>1, <3>3 DEF Sound
    <3> QED
      BY <2>1, <3>2, <3>3, <3>4, CheckMoves
  <2>4. ASSUME NEW a \in Bridge, NEW wait \in Waits, Headers(q, a, wait)
        PROVE  CheckInv'
    <3> DEFINE new == [check[q] EXCEPT !.at = "body", !.answer = a, !.elapsed = wait]
    <3>1. check' = [check EXCEPT ![q] = new] /\ check[q].at = "sent"
      BY <2>4 DEF Headers, CheckInv
    <3>2. a \in Answer /\ wait \in Nat /\ a.size \in Nat
      BY BridgeAssumption, WaitsAreTimes, SpendingAssumption DEF Answer
    <3>3. /\ new \in Check /\ new.at = "body" /\ new.answer = a /\ new.read = 0
          /\ new.heard = 0 /\ new.provider \in Provider
      BY <2>1, <3>1, <3>2 DEF Check, Sound
    <3>4. Sound(new)
      BY <3>2, <3>3, SpendingAssumption DEF Sound
    <3> QED
      BY <2>1, <3>1, <3>3, <3>4, CheckMoves
  <2>5. CASE TransportFails(q)
    <3> DEFINE new == [check[q] EXCEPT !.at = "unavailable"]
    <3>1. new \in Check /\ new.at = "unavailable"
      BY <2>1 DEF Check, Checked
    <3>2. Sound(new)
      BY <3>1 DEF Sound
    <3>3. check' = [check EXCEPT ![q] = new]
      BY <2>5 DEF TransportFails, Ends, CheckInv
    <3> QED
      BY <2>1, <3>1, <3>2, <3>3, CheckMoves
  <2> QED
    BY <1>2, <2>1, <2>2, <2>3, <2>4, <2>5, ReadPartStep, EndOfBodyStep DEF SpendingStep
<1> QED
  BY <1>1, <1>2 DEF SpendingSteps

(* Who is served came through the gate, which takes the proofs it checked. *)
Visit == [at : {"free", "inside", "turned away"}, rq : Arrivals \cup {"none"},
          sees : {rq.proofs : rq \in Arrivals} \cup {<<>>}]
GateInv ==
  /\ visit \in [Request -> Visit]
  /\ \A q \in Request : visit[q].at = "inside" =>
       /\ Passes(gate, visit[q].rq) /\ visit[q].sees = SeenProofs(gate, visit[q].rq)
  /\ FailClosed

LEMMA GateMoves ==
  ASSUME GateInv, NEW q \in Request, NEW new \in Visit, UNCHANGED <<gate, paid>>,
         visit' = [visit EXCEPT ![q] = new],
         new.at = "inside" => Passes(gate, new.rq) /\ new.sees = SeenProofs(gate, new.rq)
  PROVE  GateInv'
<1>1. visit' \in [Request -> Visit]
  BY DEF GateInv
<1>2. \A r \in Request : visit'[r].at = "inside" =>
        Passes(gate, visit'[r].rq) /\ visit'[r].sees = SeenProofs(gate, visit'[r].rq)
  BY DEF GateInv
<1> QED
  BY <1>1, <1>2 DEF GateInv, FailClosed

LEMMA EmptyVisit == Empty \in Visit /\ Empty.at = "free"
BY DEF Empty, Visit

LEMMA GateInvStep ==
  ASSUME GateInv, CheckInv, [Next]_vars
  PROVE  GateInv'
<1>1. ASSUME NEW q \in Request, Arrive(q) PROVE GateInv'
  <2>1. PICK rq \in Arrivals :
          visit' = [visit EXCEPT ![q] = [rq |-> rq, sees |-> SeenProofs(gate, rq),
                     at |-> IF Passes(gate, rq) THEN "inside" ELSE "turned away"]]
    BY <1>1 DEF Arrive
  <2> DEFINE new == [rq |-> rq, sees |-> SeenProofs(gate, rq),
                     at |-> IF Passes(gate, rq) THEN "inside" ELSE "turned away"]
  <2>2. new \in Visit
    BY DEF Visit, SeenProofs
  <2>3. new.at = "inside" => Passes(gate, new.rq) /\ new.sees = SeenProofs(gate, new.rq)
    OBVIOUS
  <2> HIDE DEF new
  <2>4. visit' = [visit EXCEPT ![q] = new] /\ UNCHANGED <<gate, paid>>
    BY <1>1, <2>1 DEF Arrive, new
  <2> QED
    BY <2>2, <2>3, <2>4, GateMoves
<1>2. ASSUME NEW q \in Request, Dispatch(q) PROVE GateInv'
  <2> DEFINE x == [by |-> visit[q], check |-> check[q]]
  <2>1. /\ visit[q].at = "inside" /\ visit[q].rq.type # "lifespan" /\ ~IsHealth(visit[q].rq)
        /\ Passes(gate, visit[q].rq) /\ visit[q].sees = SeenProofs(gate, visit[q].rq)
    BY <1>2 DEF Dispatch, Serves, GateInv
  <2>2. gate = "guarded" => Permitted(visit[q].rq) /\ visit[q].sees = <<>>
    BY <2>1 DEF Passes, SeenProofs
  <2>3. Backed(check[q])
    BY <1>2, BridgeAssumption DEF Dispatch, CheckInv, Sound
  <2>4. paid' = paid \cup {x} /\ UNCHANGED <<gate, visit>>
    BY <1>2 DEF Dispatch
  <2>5. x.by = visit[q] /\ x.check = check[q]
    OBVIOUS
  <2> HIDE DEF x
  <2>6. FailClosed'
    BY <2>2, <2>3, <2>4, <2>5 DEF GateInv, FailClosed, Backed
  <2> QED
    BY <2>4, <2>6 DEF GateInv
<1>3. ASSUME NEW q \in Request, AnswerRequest(q) PROVE GateInv'
  BY <1>3, EmptyVisit, GateMoves DEF AnswerRequest
<1>4. CASE Dies
  BY <1>4, EmptyVisit DEF Dies, GateInv, FailClosed
<1>5. CASE UNCHANGED <<gate, visit, paid>>
  BY <1>5 DEF GateInv, FailClosed
<1> QED
  BY <1>1, <1>2, <1>3, <1>4, <1>5 DEF Next, Emits, Checks, Flusher, Publishes, vars

---------------------------------------------------------------------------
(* Traces.                                                                 *)

Lists == SkillList \cup {NoList}
Block == [span : Nat, list : Lists]
Todo == {<<>>, <<"start">>, <<"propagate">>, <<"start", "propagate">>, <<"propagate", "start">>}
Work == [at : Done \cup {"entering", "body", "leaving"}, ambient : Lists,
         blocks : Seq(Block), todo : Todo, parent : Nat, list : Lists,
         raising : BOOLEAN, flushes : BOOLEAN]
Mark == [of : Request, on : Nat, late : BOOLEAN, at : {"held", "sent"}]
EmitType ==
  /\ spans \in Seq(Span) /\ trace \in [Request -> Work] /\ scores \subseteq Mark
  /\ \A k \in 1..Len(spans) : spans[k].inside < k

(* The blocks of a request are open observations of its own and the lists  *)
(* in force in them; every open observation of it is in a block.           *)
Nested(q) ==
  LET blocks == trace[q].blocks IN
  /\ trace[q].at = "body" <=> blocks # <<>>
  /\ \A j \in 1..Len(blocks) :
       LET k == blocks[j].span IN
       k \in 1..Len(spans) /\ spans[k].of = q /\ spans[k].skills = blocks[j].list
  /\ \A k \in 1..Len(spans) : spans[k].of = q /\ spans[k].at = "open" =>
       \E j \in 1..Len(blocks) : blocks[j].span = k

(* What is left to do of an opening says what was done of it: a child that *)
(* is without its list yet is current, and nothing was started in it.      *)
Bare(q) ==
  LET blocks == trace[q].blocks
      t == blocks[Len(blocks)].span IN
  /\ Len(blocks) > 1 /\ trace[q].list # NoList /\ spans[t].given = trace[q].list
  /\ \A j \in 1..Len(blocks) - 1 : blocks[j].span # t
  /\ \A k \in 1..Len(spans) : spans[k].inside # t
Opening(q) ==
  LET todo == trace[q].todo IN
  /\ trace[q].at = "entering" =>
       \/ todo = <<"propagate", "start">>
       \/ todo = <<"start">> /\ trace[q].ambient = trace[q].list
  /\ trace[q].at = "body" =>
       \/ todo = <<>>
       \/ todo = <<"start">> /\ trace[q].list = NoList
       \/ todo = <<"start", "propagate">> /\ trace[q].list # NoList
       \/ todo = <<"propagate">> /\ Bare(q)
  /\ trace[q].at \notin {"entering", "body"} => todo = <<>>
EmitInv ==
  /\ EmitType /\ DeliveredOnReturn /\ SkillsOnOwnSpan
  /\ \A q \in Request : Nested(q) /\ Opening(q)

LEMMA TodoParts ==
  /\ Head(<<"start">>) = "start" /\ Tail(<<"start">>) = <<>> /\ Len(<<"start">>) = 1
  /\ Head(<<"propagate">>) = "propagate" /\ Tail(<<"propagate">>) = <<>>
  /\ Head(<<"start", "propagate">>) = "start" /\ Tail(<<"start", "propagate">>) = <<"propagate">>
  /\ Head(<<"propagate", "start">>) = "propagate" /\ Tail(<<"propagate", "start">>) = <<"start">>
  /\ Len(<<"start", "propagate">>) = 2
OBVIOUS

LEMMA LastBlock ==
  ASSUME NEW S, NEW s \in Seq(S), s # <<>>
  PROVE  /\ Last(s) \in S /\ Last(s) = s[Len(s)] /\ Len(s) \in 1..Len(s)
         /\ Front(s) \in Seq(S) /\ Len(Front(s)) = Len(s) - 1
         /\ \A j \in 1..Len(s) - 1 : Front(s)[j] = s[j]
<1>1. Len(s) \in Nat /\ Len(s) # 0 /\ \A j \in 1..Len(s) - 1 : s[j] \in S
  BY LenProperties, ElementOfSeq, EmptySeq
<1>2. /\ SubSeq(s, 1, Len(s) - 1) \in Seq(S)
      /\ Len(SubSeq(s, 1, Len(s) - 1)) = IF 1 <= Len(s) - 1 THEN Len(s) - 1 - 1 + 1 ELSE 0
      /\ \A i \in 1..Len(s) - 1 - 1 + 1 : SubSeq(s, 1, Len(s) - 1)[i] = s[1 + i - 1]
  BY <1>1, SubSeqProperties
<1>3. Last(s) \in S /\ Last(s) = s[Len(s)] /\ Len(s) \in 1..Len(s)
  BY <1>1, ElementOfSeq DEF Last
<1>4. Front(s) \in Seq(S)
  BY <1>2 DEF Front
<1>5. Len(Front(s)) = Len(s) - 1
  <2>1. \A n \in Nat \ {0} : (IF 1 <= n - 1 THEN n - 1 - 1 + 1 ELSE 0) = n - 1
    OBVIOUS
  <2> QED
    BY <1>1, <1>2, <2>1 DEF Front
<1>6. ASSUME NEW j \in 1..Len(s) - 1 PROVE Front(s)[j] = s[j]
  <2>1. j \in 1..Len(s) - 1 - 1 + 1 /\ 1 + j - 1 = j
    BY <1>1
  <2> QED
    BY <1>2, <2>1 DEF Front
<1> QED
  BY <1>3, <1>4, <1>5, <1>6

(* Steps that leave every observation what it is but for `at`.             *)
Aged(ss, tt) ==
  /\ tt \in Seq(Span) /\ Len(tt) = Len(ss)
  /\ \A k \in 1..Len(ss) :
       /\ tt[k].of = ss[k].of /\ tt[k].given = ss[k].given /\ tt[k].inside = ss[k].inside
       /\ tt[k].skills = ss[k].skills /\ (tt[k].entered <=> ss[k].entered) /\ (tt[k].at = "open" => ss[k].at = "open")

LEMMA SpanAges ==
  ASSUME NEW k \in Span, NEW a \in {"ended", "sent", "lost"}
  PROVE  LET l == [k EXCEPT !.at = a]
         IN  /\ l \in Span /\ l.at = a /\ l.of = k.of /\ l.given = k.given
             /\ l.inside = k.inside /\ l.skills = k.skills /\ (l.entered <=> k.entered)
BY DEF Span

LEMMA SkillsAge ==
  ASSUME EmitType, SkillsOnOwnSpan, Aged(spans, spans')
  PROVE  SkillsOnOwnSpan'
<1>1. DOMAIN spans = 1..Len(spans) /\ DOMAIN spans' = 1..Len(spans) /\ Len(spans) \in Nat
  BY DEF EmitType, Aged
<1>2. ASSUME NEW k \in 1..Len(spans), spans'[k].entered
      PROVE  spans'[k].skills = IF spans'[k].given # NoList THEN spans'[k].given
                                ELSE IF spans'[k].inside = 0 THEN NoList
                                ELSE spans'[spans'[k].inside].skills
  <2>1. spans[k].skills = IF spans[k].given # NoList THEN spans[k].given
                          ELSE IF spans[k].inside = 0 THEN NoList
                          ELSE spans[spans[k].inside].skills
    BY <1>1, <1>2 DEF SkillsOnOwnSpan, Aged
  <2>2. spans[k].inside # 0 => spans[k].inside \in 1..Len(spans)
    <3>1. spans[k] \in Span /\ spans[k].inside < k
      BY <1>1, ElementOfSeq DEF EmitType
    <3> QED
      BY <1>1, <3>1 DEF Span
  <2> QED
    BY <2>1, <2>2 DEF Aged
<1> QED
  BY <1>1, <1>2 DEF SkillsOnOwnSpan

LEMMA EndAges ==
  ASSUME spans \in Seq(Span), NEW s \in 1..Len(spans), NEW a \in {"ended", "sent"},
         spans' = [spans EXCEPT ![s].at = a]
  PROVE  /\ Aged(spans, spans') /\ spans'[s].at = a
         /\ \A k \in 1..Len(spans) : k # s => spans'[k] = spans[k]
<1>1. spans[s] \in Span
  BY ElementOfSeq
<1>2. spans' = [spans EXCEPT ![s] = [spans[s] EXCEPT !.at = a]]
  OBVIOUS
<1>3. [spans[s] EXCEPT !.at = a] \in Span
  BY <1>1, SpanAges
<1>4. /\ spans' \in Seq(Span) /\ Len(spans') = Len(spans)
      /\ \A k \in 1..Len(spans) : spans'[k] = IF k = s THEN [spans[s] EXCEPT !.at = a] ELSE spans[k]
  BY <1>2, <1>3, ExceptSeq
<1> QED
  BY <1>1, <1>4, SpanAges DEF Aged

LEMMA FlushAges ==
  ASSUME spans \in Seq(Span)
  PROVE  /\ Aged(spans, Flushed(spans))
         /\ \A k \in 1..Len(spans) : Flushed(spans)[k].at =
              IF spans[k].at = "ended" THEN "sent" ELSE spans[k].at
<1>1. DOMAIN spans = 1..Len(spans) /\ Len(spans) \in Nat
  OBVIOUS
<1>2. ASSUME NEW k \in 1..Len(spans)
      PROVE  /\ Flushed(spans)[k] = IF spans[k].at = "ended" THEN [spans[k] EXCEPT !.at = "sent"]
                                    ELSE spans[k]
             /\ Flushed(spans)[k] \in Span
    BY <1>1, ElementOfSeq, SpanAges DEF Flushed
<1>3. Flushed(spans) \in Seq(Span) /\ Len(Flushed(spans)) = Len(spans)
  BY <1>1, <1>2 DEF Flushed
<1>4. \A k \in 1..Len(spans) : spans[k] \in Span
  BY ElementOfSeq
<1> DEFINE tt == Flushed(spans)
<1>5. ASSUME NEW k \in 1..Len(spans)
      PROVE  /\ tt[k].of = spans[k].of /\ tt[k].given = spans[k].given
             /\ tt[k].inside = spans[k].inside /\ tt[k].skills = spans[k].skills
             /\ (tt[k].entered <=> spans[k].entered)
             /\ tt[k].at = IF spans[k].at = "ended" THEN "sent" ELSE spans[k].at
  <2>1. CASE spans[k].at = "ended"
    <3>1. tt[k] = [spans[k] EXCEPT !.at = "sent"]
      BY <1>2, <2>1
    <3> HIDE DEF tt
    <3> QED
      BY <1>4, <2>1, <3>1, SpanAges
  <2>2. CASE spans[k].at # "ended"
    BY <1>2, <2>2
  <2> QED
    BY <2>1, <2>2
<1> HIDE DEF tt
<1>6. tt \in Seq(Span) /\ Len(tt) = Len(spans)
  BY <1>3 DEF tt
<1>7. Aged(spans, tt)
  BY <1>5, <1>6 DEF Aged
<1> QED
  BY <1>5, <1>7 DEF tt

LEMMA FlushedMarks ==
  ASSUME scores \subseteq Mark
  PROVE  /\ FlushedScores \subseteq Mark
         /\ \A s \in FlushedScores : s.at = "sent"
BY DEF FlushedScores, Mark

(* What a step of request q has to show for the other requests: what they  *)
(* opened stays as it is, or is sent.                                      *)
Undisturbed(q) ==
  /\ Len(spans') >= Len(spans)
  /\ \A k \in 1..Len(spans) :
       /\ spans'[k].of = spans[k].of /\ spans'[k].inside = spans[k].inside
       /\ spans'[k].of # q =>
            /\ spans'[k].skills = spans[k].skills /\ spans'[k].given = spans[k].given
            /\ spans'[k].at = "open" => spans[k].at = "open"
            /\ spans[k].at \in {"sent", "lost"} => spans'[k].at \in {"sent", "lost"}
  /\ \A k \in 1..Len(spans') : k > Len(spans) =>
       /\ spans'[k].of = q
       /\ \A t \in 1..Len(spans) : spans[t].of # q => spans'[k].inside # t
  /\ \A s \in scores' : s.of # q => s \in scores \/ s.at = "sent"

(* What is due to one request.                                             *)
Served(q) ==
  trace[q].at \in {"answered", "raised"} /\ trace[q].flushes =>
    /\ \A k \in 1..Len(spans) : spans[k].of = q => spans[k].at \in {"sent", "lost"}
    /\ \A s \in scores : s.of = q /\ ~s.late => s.at = "sent"

LEMMA OthersServed ==
  ASSUME EmitInv, NEW q \in Request, NEW r \in Request \ {q}, trace'[r] = trace[r],
         Undisturbed(q), spans' \in Seq(Span), Served(r), Nested(r), Opening(r)
  PROVE  (Served(r) /\ Nested(r) /\ Opening(r))'
<1>1. Len(spans) \in Nat /\ Len(spans') \in Nat
  BY DEF EmitInv, EmitType
<1>2. ASSUME NEW k \in 1..Len(spans'), spans'[k].of = r
      PROVE  /\ k \in 1..Len(spans) /\ spans[k].of = r
             /\ spans'[k].at = "open" => spans[k].at = "open"
             /\ spans[k].at \in {"sent", "lost"} => spans'[k].at \in {"sent", "lost"}
  <2>1. ~(k > Len(spans))
    BY <1>2 DEF Undisturbed
  <2>2. k \in 1..Len(spans)
    BY <1>1, <2>1
  <2> QED
    BY <1>2, <2>2 DEF Undisturbed
<1>3. Served(r)'
  <2>1. SUFFICES ASSUME trace[r].at \in {"answered", "raised"}, trace[r].flushes
                 PROVE  /\ \A k \in 1..Len(spans') : spans'[k].of = r => spans'[k].at \in {"sent", "lost"}
                        /\ \A s \in scores' : s.of = r /\ ~s.late => s.at = "sent"
    BY DEF Served
  <2>2. /\ \A k \in 1..Len(spans) : spans[k].of = r => spans[k].at \in {"sent", "lost"}
        /\ \A s \in scores : s.of = r /\ ~s.late => s.at = "sent"
    BY <2>1 DEF Served
  <2>3. \A s \in scores' : s.of # q => s \in scores \/ s.at = "sent"
    BY DEF Undisturbed
  <2> QED
    BY <1>2, <2>2, <2>3
<1>4. ASSUME NEW k \in 1..Len(spans), spans[k].of = r
      PROVE  /\ k \in 1..Len(spans') /\ spans'[k].of = r
             /\ spans'[k].skills = spans[k].skills /\ spans'[k].given = spans[k].given
  BY <1>1, <1>4 DEF Undisturbed
<1>5. Nested(r)'
  <2> DEFINE bs == trace[r].blocks
  <2>1. trace'[r].blocks = bs /\ (trace'[r].at = "body" <=> bs # <<>>)
    BY DEF Nested
  <2>2. ASSUME NEW j \in 1..Len(bs)
        PROVE  LET k == bs[j].span IN
               k \in 1..Len(spans') /\ spans'[k].of = r /\ spans'[k].skills = bs[j].list
    <3>1. LET k == bs[j].span IN
          k \in 1..Len(spans) /\ spans[k].of = r /\ spans[k].skills = bs[j].list
      BY DEF Nested
    <3> HIDE DEF bs
    <3> QED
      BY <1>4, <3>1
  <2>3. ASSUME NEW k \in 1..Len(spans'), spans'[k].of = r, spans'[k].at = "open"
        PROVE  \E j \in 1..Len(bs) : bs[j].span = k
    <3>1. k \in 1..Len(spans) /\ spans[k].of = r /\ spans[k].at = "open"
      BY <1>2, <2>3
    <3> QED
      BY <3>1 DEF Nested
  <2> HIDE DEF bs
  <2> QED
    BY <2>1, <2>2, <2>3 DEF Nested
<1>6. ASSUME Bare(r), trace[r].at = "body" PROVE Bare(r)'
  <2> DEFINE t == trace[r].blocks[Len(trace[r].blocks)].span
  <2>1. t \in 1..Len(spans) /\ spans[t].of = r
    <3>1. trace[r].blocks \in Seq(Block)
      BY DEF EmitInv, EmitType, Work
    <3>2. Len(trace[r].blocks) \in 1..Len(trace[r].blocks)
      BY <1>6, <3>1 DEF Bare
    <3> QED
      BY <3>2 DEF Nested
  <2>2. ASSUME NEW k \in 1..Len(spans') PROVE spans'[k].inside # t
    <3>1. CASE k > Len(spans)
      BY <2>1, <3>1 DEF Undisturbed
    <3>2. CASE ~(k > Len(spans))
      <4>1. k \in 1..Len(spans)
        BY <1>1, <3>2
      <4> QED
        BY <1>6, <4>1 DEF Undisturbed, Bare
    <3> QED
      BY <3>1, <3>2
  <2>3. spans'[t].given = spans[t].given
    BY <1>4, <2>1
  <2> QED
    BY <1>6, <2>2, <2>3 DEF Bare
<1>7. Opening(r)'
  BY <1>6 DEF Opening
<1> QED
  BY <1>3, <1>5, <1>7

LEMMA ServedAll ==
  ASSUME EmitType
  PROVE  DeliveredOnReturn <=> \A q \in Request : Served(q)
<1>1. DOMAIN spans = 1..Len(spans)
  BY DEF EmitType
<1> QED
  BY <1>1 DEF DeliveredOnReturn, Served

(* A request's step keeps the invariant when its own part is kept.         *)
LEMMA RequestMoves ==
  ASSUME EmitInv, NEW q \in Request, NEW new \in Work, trace' = [trace EXCEPT ![q] = new],
         EmitType', SkillsOnOwnSpan', Undisturbed(q), (Served(q) /\ Nested(q) /\ Opening(q))'
  PROVE  EmitInv'
<1>1. \A r \in Request \ {q} : trace'[r] = trace[r]
  BY DEF EmitInv, EmitType
<1>2. \A r \in Request : Served(r) /\ Nested(r) /\ Opening(r)
  BY ServedAll DEF EmitInv
<1>3. \A r \in Request \ {q} : (Served(r) /\ Nested(r) /\ Opening(r))'
  BY <1>1, <1>2, OthersServed DEF EmitType
<1>4. EmitType' => (DeliveredOnReturn' <=> \A r \in Request : Served(r)')
  <2>1. EmitType' => DOMAIN spans' = 1..Len(spans')
    BY DEF EmitType
  <2> QED
    BY <2>1 DEF DeliveredOnReturn, Served
<1> QED
  BY <1>3, <1>4 DEF EmitInv

LEMMA AgedUndisturbed ==
  ASSUME NEW q \in Request, spans \in Seq(Span), Aged(spans, spans'),
         \A k \in 1..Len(spans) : spans[k].of # q /\ spans[k].at \in {"sent", "lost"} =>
           spans'[k].at \in {"sent", "lost"},
         \A s \in scores' : s.of # q => s \in scores \/ s.at = "sent"
  PROVE  Undisturbed(q)
<1>1. Len(spans) \in Nat /\ Len(spans') = Len(spans)
  BY DEF Aged
<1> QED
  BY <1>1 DEF Aged, Undisturbed

LEMMA StayUndisturbed ==
  ASSUME NEW q \in Request, spans \in Seq(Span), UNCHANGED spans,
         \A s \in scores' : s.of # q => s \in scores \/ s.at = "sent"
  PROVE  Undisturbed(q)
<1>1. Len(spans) \in Nat
  OBVIOUS
<1> QED
  BY <1>1 DEF Undisturbed

(* Steps that change the trace of one request only.                        *)
LEMMA TraceOnly ==
  ASSUME EmitInv, NEW q \in Request, NEW new \in Work, trace' = [trace EXCEPT ![q] = new],
         UNCHANGED <<spans, scores>>,
         \/ new.blocks = trace[q].blocks /\ new.at = trace[q].at /\ new.flushes = trace[q].flushes
         \/ new.blocks = <<>> /\ trace[q].blocks = <<>> /\ new.at # "body"
            /\ (new.at \in {"answered", "raised"} => ~new.flushes),
         Opening(q)'
  PROVE  EmitInv'
<1>1. trace'[q] = new /\ Served(q) /\ Nested(q)
  BY ServedAll DEF EmitInv, EmitType
<1>2. EmitType' /\ SkillsOnOwnSpan'
  BY DEF EmitInv, EmitType, SkillsOnOwnSpan
<1>3. Undisturbed(q)
  BY StayUndisturbed DEF EmitInv, EmitType
<1>4. Served(q)'
  BY <1>1 DEF Served
<1>5. Nested(q)'
  BY <1>1 DEF Nested
<1> QED
  BY <1>2, <1>3, <1>4, <1>5, RequestMoves

LEMMA StartTraceStep ==
  ASSUME EmitInv, NEW q \in Request, NEW list \in SkillList \cup {NoList, BadList},
         NEW flushes \in BOOLEAN, StartTrace(q, list, flushes)
  PROVE  EmitInv'
<1>1. trace[q].blocks = <<>> /\ trace[q].at # "body"
  BY DEF StartTrace, EmitInv, Nested, Done
<1>2. PICK new \in Work :
        /\ trace' = [trace EXCEPT ![q] = new] /\ new.blocks = <<>>
        /\ \/ new.at = "refused" /\ new.todo = <<>>
           \/ new.at = "entering" /\ new.todo = <<"propagate", "start">>
  <2>1. CASE list = BadList
    <3> DEFINE new == [Outside EXCEPT !.at = "refused"]
    <3>1. new \in Work /\ new.at = "refused" /\ new.blocks = <<>> /\ new.todo = <<>>
      BY EmptySeq DEF Outside, Work, Done, Lists, Todo
    <3>2. trace' = [trace EXCEPT ![q] = new]
      BY <2>1 DEF StartTrace
    <3> HIDE DEF new
    <3> QED
      BY <3>1, <3>2
  <2>2. CASE list # BadList
    <3> DEFINE new == [Outside EXCEPT !.at = "entering", !.flushes = flushes,
                                      !.todo = TraceCalls, !.list = list]
    <3>1. list \in Lists /\ TraceCalls = <<"propagate", "start">>
      BY <2>2 DEF Lists, TraceCalls
    <3>2. /\ new \in Work /\ new.at = "entering" /\ new.blocks = <<>>
          /\ new.todo = <<"propagate", "start">>
      BY <3>1, EmptySeq DEF Outside, Work, Lists, Todo
    <3>3. trace' = [trace EXCEPT ![q] = new]
      BY <2>2 DEF StartTrace
    <3> HIDE DEF new
    <3> QED
      BY <3>2, <3>3
  <2> QED
    BY <2>1, <2>2
<1>3. trace'[q] = new /\ UNCHANGED <<spans, scores>>
  BY <1>2 DEF StartTrace, EmitInv, EmitType
<1>4. Opening(q)'
  BY <1>2, <1>3 DEF Opening
<1> QED
  BY <1>1, <1>2, <1>3, <1>4, TraceOnly

(* Steps that only move the request along.                                 *)
LEMMA QuietSteps ==
  ASSUME EmitInv, NEW q \in Request,
         BodyRaises(q) \/ BodyCatches(q) \/ FlushFails(q) \/ Raises(q)
  PROVE  EmitInv'
<1>1. /\ trace[q] \in Work /\ (trace[q].at # "body" => trace[q].blocks = <<>>)
      /\ Opening(q)
  BY DEF EmitInv, EmitType, Nested
<1>2. ASSUME NEW r \in BOOLEAN, trace' = [trace EXCEPT ![q].raising = r],
             UNCHANGED <<spans, scores>>
      PROVE  EmitInv'
  <2> DEFINE new == [trace[q] EXCEPT !.raising = r]
  <2>1. trace' = [trace EXCEPT ![q] = new]
    BY <1>2
  <2>2. /\ new \in Work /\ new.at = trace[q].at /\ new.blocks = trace[q].blocks
        /\ new.flushes = trace[q].flushes /\ new.todo = trace[q].todo
        /\ new.list = trace[q].list /\ new.ambient = trace[q].ambient
    BY <1>1 DEF Work
  <2> HIDE DEF new
  <2>3. trace'[q] = new
    BY <2>1 DEF EmitInv, EmitType
  <2>4. Opening(q)'
    BY <1>1, <1>2, <2>2, <2>3 DEF Opening, Bare
  <2> QED
    BY <1>2, <2>1, <2>2, <2>4, TraceOnly
<1>3. CASE FlushFails(q)
  <2> DEFINE new == [trace[q] EXCEPT !.at = "flush failed"]
  <2>1. trace' = [trace EXCEPT ![q] = new] /\ UNCHANGED <<spans, scores>>
    BY <1>3 DEF FlushFails
  <2>2. /\ new \in Work /\ new.at = "flush failed" /\ new.blocks = trace[q].blocks
        /\ new.todo = trace[q].todo
    BY <1>1 DEF Done, Work
  <2>3. trace[q].blocks = <<>> /\ trace[q].todo = <<>>
    BY <1>1, <1>3 DEF FlushFails, Opening
  <2> HIDE DEF new
  <2>4. trace'[q] = new
    BY <2>1 DEF EmitInv, EmitType
  <2>5. Opening(q)'
    BY <2>2, <2>3, <2>4 DEF Opening
  <2> QED
    BY <2>1, <2>2, <2>3, <2>5, TraceOnly
<1> QED
  BY <1>2, <1>3 DEF BodyRaises, BodyCatches, Raises

(* Opening a child only says which calls are to be made.                   *)
LEMMA OpenStep ==
  ASSUME EmitInv, NEW q \in Request, NEW parent \in DOMAIN spans,
         NEW list \in SkillList \cup {NoList, BadList}, Open(q, parent, list)
  PROVE  EmitInv'
<1>1. trace[q] \in Work /\ trace[q].at = "body" /\ parent \in Nat
  BY DEF Open, Inside, EmitInv, EmitType
<1>2. CASE list = BadList
  BY <1>2, QuietSteps DEF Open
<1>3. CASE list # BadList
  <2> DEFINE todo == ChildCalls(list)
             new == [trace[q] EXCEPT !.todo = todo, !.parent = parent, !.list = list]
  <2>1. /\ list \in Lists /\ todo \in Todo
        /\ \/ todo = <<"start">> /\ list = NoList
           \/ todo = <<"start", "propagate">> /\ list # NoList
    BY <1>3 DEF Lists, ChildCalls, Todo
  <2> HIDE DEF todo
  <2>2. /\ new \in Work /\ new.at = "body" /\ new.blocks = trace[q].blocks
        /\ new.flushes = trace[q].flushes /\ new.todo = todo /\ new.list = list
    BY <1>1, <2>1 DEF Work
  <2>3. trace' = [trace EXCEPT ![q] = new] /\ UNCHANGED <<spans, scores>>
    BY <1>3 DEF Open, todo, EmitInv, EmitType
  <2> HIDE DEF new
  <2>4. trace'[q] = new
    BY <2>3 DEF EmitInv, EmitType
  <2>5. Opening(q)'
    BY <2>1, <2>2, <2>4 DEF Opening
  <2> QED
    BY <1>1, <2>2, <2>3, <2>5, TraceOnly
<1> QED
  BY <1>2, <1>3

(* What is started is current, inside what was current before.             *)
LEMMA StartStep ==
  ASSUME EmitInv, NEW q \in Request, Start(q)
  PROVE  EmitInv'
<1> DEFINE n == Len(spans)
           w == trace[q]
           bs == trace[q].blocks
           m == Len(bs)
           c == Context(q)
           last == Len(w.todo) = 1
<1>1. /\ w \in Work /\ bs \in Seq(Block) /\ spans \in Seq(Span) /\ DOMAIN spans = 1..n
      /\ n \in Nat /\ m \in Nat /\ Nested(q) /\ Opening(q)
  <2>1. w \in Work /\ spans \in Seq(Span) /\ Nested(q) /\ Opening(q)
    BY DEF EmitInv, EmitType
  <2>2. bs \in Seq(Block)
    BY <2>1 DEF Work
  <2> QED
    BY <2>1, <2>2
<1>2. \/ w.at = "entering" /\ bs = <<>> /\ w.todo = <<"start">> /\ w.ambient = w.list
      \/ w.at = "body" /\ bs # <<>> /\ w.todo = <<"start">> /\ w.list = NoList
      \/ w.at = "body" /\ bs # <<>> /\ w.todo = <<"start", "propagate">> /\ w.list # NoList
  <2>1. w.todo # <<>> /\ Head(w.todo) = "start"
    BY DEF Start, Calls
  <2>2. (w.at = "body") <=> bs # <<>>
    BY <1>1 DEF Nested
  <2> QED
    BY <1>1, <2>1, <2>2, TodoParts DEF Opening
<1>3. /\ bs = <<>> => c.span = 0 /\ c.list = w.ambient
      /\ bs # <<>> => c.span \in 1..n /\ spans[c.span].of = q /\ spans[c.span].skills = c.list
      /\ c.list \in Lists
  <2>1. CASE bs = <<>>
    BY <1>1, <2>1 DEF Context, Work
  <2>2. CASE bs # <<>>
    <3>1. Last(bs) \in Block /\ Last(bs) = bs[m] /\ m \in 1..m
      <4> HIDE DEF bs
      <4> QED
        BY <1>1, <2>2, LastBlock
    <3>2. c = bs[m]
      BY <2>2, <3>1 DEF Context, Top
    <3> QED
      BY <1>1, <2>2, <3>1, <3>2 DEF Nested, Block
  <2> QED
    BY <2>1, <2>2
<1> DEFINE obs == [of |-> q, parent |-> w.parent, given |-> w.list, inside |-> c.span,
                   skills |-> c.list, entered |-> last, at |-> "open"]
           b == [span |-> n + 1, list |-> c.list]
           next == Append(bs, b)
           new == [w EXCEPT !.at = "body", !.todo = Tail(@), !.blocks = next]
<1>4. spans' = Append(spans, obs) /\ UNCHANGED scores /\ trace' = [trace EXCEPT ![q] = new]
  BY DEF Start, EmitInv, EmitType
<1>5. c.span \in 0..n /\ c.span < n + 1
  BY <1>1, <1>3
<1>6. obs \in Span /\ obs.of = q /\ obs.inside = c.span /\ obs.given = w.list
      /\ obs.skills = c.list /\ (obs.entered <=> last) /\ b \in Block
      /\ b.span = n + 1 /\ b.list = c.list
  <2>1. last \in BOOLEAN /\ c.span \in Nat
    BY <1>5
  <2> HIDE DEF c, last
  <2> QED
    BY <1>1, <1>3, <2>1 DEF Span, Lists, Work, Block
<1>7. Tail(w.todo) \in Todo /\ (last <=> w.todo = <<"start">>)
      /\ (w.todo = <<"start">> => Tail(w.todo) = <<>>)
      /\ (w.todo = <<"start", "propagate">> => Tail(w.todo) = <<"propagate">>)
  <2>1. CASE w.todo = <<"start">>
    <3>1. last /\ Tail(w.todo) = <<>> /\ <<"start">> # <<"start", "propagate">>
      BY <2>1, TodoParts
    <3>2. <<>> \in Todo
      BY DEF Todo
    <3> QED
      BY <2>1, <3>1, <3>2
  <2>2. CASE w.todo = <<"start", "propagate">>
    <3>1. ~last /\ Tail(w.todo) = <<"propagate">> /\ <<"start">> # <<"start", "propagate">>
      BY <2>2, TodoParts
    <3>2. <<"propagate">> \in Todo
      BY DEF Todo
    <3> QED
      BY <2>2, <3>1, <3>2
  <2> QED
    BY <1>2, <2>1, <2>2
<1> HIDE DEF c, last, obs, b
<1>8. /\ spans' \in Seq(Span) /\ Len(spans') = n + 1 /\ spans'[n + 1] = obs
      /\ \A k \in 1..n : spans'[k] = spans[k]
  BY <1>1, <1>4, <1>6
<1>9. /\ next \in Seq(Block) /\ Len(next) = m + 1 /\ next[m + 1] = b /\ next # <<>>
      /\ \A j \in 1..m : next[j] = bs[j]
  BY <1>1, <1>6
<1> HIDE DEF next
<1>10. /\ new \in Work /\ new.at = "body" /\ new.blocks = next
       /\ new.todo = Tail(w.todo) /\ new.list = w.list
  BY <1>1, <1>7, <1>9 DEF Work
<1> HIDE DEF new
<1>11. trace'[q] = new
  BY <1>4 DEF EmitInv, EmitType
<1>12. ASSUME NEW k \in 1..n + 1 PROVE k \in 1..n \/ k = n + 1
  BY <1>1
<1>13. EmitType'
  <2>1. \A k \in 1..n : spans[k].inside < k
    BY DEF EmitInv, EmitType
  <2>2. \A k \in 1..n + 1 : spans'[k].inside < k
    BY <1>5, <1>6, <1>8, <1>12, <2>1
  <2> QED
    BY <1>4, <1>8, <1>10, <2>2 DEF EmitInv, EmitType
<1>14. SkillsOnOwnSpan'
  <2>1. ASSUME NEW k \in 1..n, spans[k].entered
        PROVE  spans'[k].skills = IF spans'[k].given # NoList THEN spans'[k].given
                                  ELSE IF spans'[k].inside = 0 THEN NoList
                                  ELSE spans'[spans'[k].inside].skills
    <3>1. spans[k].skills = IF spans[k].given # NoList THEN spans[k].given
                            ELSE IF spans[k].inside = 0 THEN NoList
                            ELSE spans[spans[k].inside].skills
      BY <1>1, <2>1 DEF EmitInv, SkillsOnOwnSpan
    <3>2. spans[k].inside # 0 => spans[k].inside \in 1..n
      <4>1. spans[k] \in Span /\ spans[k].inside < k
        BY <1>1, ElementOfSeq DEF EmitInv, EmitType
      <4> QED
        BY <1>1, <4>1 DEF Span
    <3> QED
      BY <1>8, <3>1, <3>2
  <2>2. last => obs.skills = IF obs.given # NoList THEN obs.given
                             ELSE IF obs.inside = 0 THEN NoList
                             ELSE spans'[obs.inside].skills
    <3>1. CASE bs = <<>>
      BY <1>2, <1>3, <1>6, <3>1
    <3>2. CASE bs # <<>>
      <4>1. last => w.list = NoList
        <5>1. <<"start">> # <<"start", "propagate">>
          BY TodoParts
        <5> QED
          BY <1>2, <1>7, <3>2, <5>1
      <4>2. c.span # 0 /\ spans'[c.span].skills = c.list
        BY <1>1, <1>3, <1>8, <3>2
      <4> QED
        BY <1>6, <4>1, <4>2
    <3> QED
      BY <3>1, <3>2
  <2>3. DOMAIN spans' = 1..n + 1
    BY <1>8
  <2> QED
    BY <1>6, <1>8, <1>12, <2>1, <2>2, <2>3 DEF SkillsOnOwnSpan
<1>15. Undisturbed(q)
  <2>1. \A k \in 1..n + 1 : k > n => k = n + 1
    BY <1>1
  <2>2. \A t \in 1..n : spans[t].of # q => obs.inside # t
    BY <1>1, <1>3, <1>6
  <2> QED
    BY <1>1, <1>4, <1>6, <1>8, <2>1, <2>2 DEF Undisturbed
<1>16. ASSUME NEW j \in 1..m + 1
       PROVE  /\ next[j].span \in 1..n + 1 /\ spans'[next[j].span].of = q
              /\ spans'[next[j].span].skills = next[j].list
  <2>1. CASE j = m + 1
    BY <1>1, <1>6, <1>8, <1>9, <2>1
  <2>2. CASE j # m + 1
    <3>1. j \in 1..m
      BY <1>1, <2>2
    <3>2. /\ bs[j].span \in 1..n /\ spans[bs[j].span].of = q
          /\ spans[bs[j].span].skills = bs[j].list
      BY <1>1, <3>1 DEF Nested
    <3>3. bs[j].span \in 1..n + 1 /\ next[j] = bs[j]
      BY <1>1, <1>9, <3>1, <3>2
    <3> QED
      BY <1>8, <3>2, <3>3
  <2> QED
    BY <2>1, <2>2
<1>17. ASSUME NEW k \in 1..n + 1, spans'[k].of = q, spans'[k].at = "open"
       PROVE  \E j \in 1..m + 1 : next[j].span = k
  <2>1. CASE k = n + 1
    <3>1. m + 1 \in 1..m + 1
      BY <1>1
    <3> QED
      BY <1>6, <1>9, <2>1, <3>1
  <2>2. CASE k \in 1..n
    <3>1. PICK j \in 1..m : bs[j].span = k
      BY <1>1, <1>8, <1>17, <2>2 DEF Nested
    <3>2. j \in 1..m + 1
      BY <1>1
    <3> QED
      BY <1>9, <3>1, <3>2
  <2> QED
    BY <1>12, <2>1, <2>2
<1>18. Nested(q)'
  BY <1>8, <1>9, <1>10, <1>11, <1>16, <1>17 DEF Nested
<1>19. Served(q)'
  BY <1>10, <1>11 DEF Served
<1>20. Opening(q)'
  <2>1. CASE w.todo = <<"start">>
    BY <1>7, <1>10, <1>11, <2>1 DEF Opening
  <2>2. CASE w.todo = <<"start", "propagate">>
    <3>1. new.todo = <<"propagate">> /\ w.list # NoList /\ bs # <<>>
      BY <1>2, <1>7, <1>10, <2>2, TodoParts
    <3>2. m + 1 > 1 /\ m + 1 - 1 = m
      BY <1>1, <3>1, EmptySeq
    <3>3. \A j \in 1..m : next[j].span # n + 1
      <4>1. \A j \in 1..m : bs[j].span \in 1..n
        BY <1>1 DEF Nested
      <4> QED
        BY <1>1, <1>9, <4>1
    <3>4. \A k \in 1..n + 1 : spans'[k].inside # n + 1
      <4>1. ASSUME NEW k \in 1..n PROVE spans[k].inside < k /\ spans[k].inside \in Nat
        <5>1. spans[k] \in Span /\ spans[k].inside < k
          BY <1>1, ElementOfSeq DEF EmitInv, EmitType
        <5> QED
          BY <5>1 DEF Span
      <4> QED
        BY <1>1, <1>5, <1>6, <1>8, <1>12, <4>1
    <3>5. next[m + 1].span = n + 1 /\ spans'[n + 1].given = w.list
      BY <1>6, <1>8, <1>9
    <3>6. Bare(q)'
      <4>1. /\ trace'[q].blocks = next /\ trace'[q].list = w.list
            /\ Len(next) = m + 1 /\ Len(spans') = n + 1
        BY <1>8, <1>9, <1>10, <1>11
      <4>2. next[Len(next)].span = n + 1 /\ Len(next) > 1 /\ Len(next) - 1 = m
        BY <3>2, <3>5, <4>1
      <4> HIDE DEF w, m, n, bs
      <4>3. /\ Len(next) > 1 /\ w.list # NoList /\ spans'[n + 1].given = w.list
            /\ \A j \in 1..Len(next) - 1 : next[j].span # n + 1
            /\ \A k \in 1..Len(spans') : spans'[k].inside # n + 1
        BY <3>1, <3>3, <3>4, <3>5, <4>1, <4>2
      <4> QED
        BY <4>1, <4>2, <4>3 DEF Bare
    <3> QED
      BY <1>10, <1>11, <3>1, <3>6 DEF Opening
  <2> QED
    BY <1>2, <2>1, <2>2
<1> QED
  BY <1>4, <1>10, <1>13, <1>14, <1>15, <1>18, <1>19, <1>20, RequestMoves

(* A list is put in force before the root is started, or on the child that *)
(* is current: nothing is inside that child yet, and no other block is it. *)
LEMMA PropagateStep ==
  ASSUME EmitInv, NEW q \in Request, Propagate(q)
  PROVE  EmitInv'
<1> DEFINE n == Len(spans)
           w == trace[q]
           bs == trace[q].blocks
           m == Len(bs)
           s == Context(q).span
<1>1. /\ w \in Work /\ bs \in Seq(Block) /\ spans \in Seq(Span) /\ DOMAIN spans = 1..n
      /\ n \in Nat /\ m \in Nat /\ Nested(q) /\ Opening(q)
  <2>1. w \in Work /\ spans \in Seq(Span) /\ Nested(q) /\ Opening(q)
    BY DEF EmitInv, EmitType
  <2>2. bs \in Seq(Block)
    BY <2>1 DEF Work
  <2> QED
    BY <2>1, <2>2
<1>2. /\ w.todo # <<>> /\ Head(w.todo) = "propagate" /\ ((w.at = "body") <=> bs # <<>>)
  BY <1>1 DEF Propagate, Calls, Nested
<1>3. CASE bs = <<>>
  <2>1. w.at = "entering" /\ w.todo = <<"propagate", "start">> /\ Tail(w.todo) = <<"start">>
    BY <1>1, <1>2, <1>3, TodoParts DEF Opening
  <2> DEFINE new == [w EXCEPT !.ambient = w.list, !.todo = Tail(@)]
  <2>2. trace' = [trace EXCEPT ![q] = new] /\ UNCHANGED <<spans, scores>>
    BY <1>3 DEF Propagate, Context, EmitInv, EmitType
  <2>3. /\ new \in Work /\ new.at = "entering" /\ new.blocks = bs /\ new.todo = <<"start">>
        /\ new.ambient = new.list /\ new.flushes = w.flushes
    BY <1>1, <2>1 DEF Work, Todo
  <2> HIDE DEF new
  <2>4. trace'[q] = new
    BY <2>2 DEF EmitInv, EmitType
  <2>5. Opening(q)'
    BY <2>3, <2>4 DEF Opening
  <2> QED
    BY <2>1, <2>2, <2>3, <2>5, TraceOnly
<1>4. CASE bs # <<>>
  <2>1. w.at = "body" /\ w.todo = <<"propagate">> /\ Tail(w.todo) = <<>> /\ Bare(q)
    BY <1>1, <1>2, <1>4, TodoParts DEF Opening
  <2>2. Last(bs) \in Block /\ Last(bs) = bs[m] /\ m \in 1..m
    <3> HIDE DEF bs
    <3> QED
      BY <1>1, <1>4, LastBlock
  <2>3. /\ s = bs[m].span /\ s \in 1..n /\ spans[s].of = q /\ spans[s].given = w.list
        /\ w.list # NoList /\ w.list \in Lists /\ m > 1
        /\ \A j \in 1..m - 1 : bs[j].span # s
        /\ \A k \in 1..n : spans[k].inside # s
    BY <1>1, <1>4, <2>1, <2>2 DEF Context, Top, Nested, Bare, Work
  <2> DEFINE obs == [spans[s] EXCEPT !.skills = w.list, !.entered = TRUE]
             b == [bs[m] EXCEPT !.list = w.list]
             next == [bs EXCEPT ![m] = b]
             new == [w EXCEPT !.todo = Tail(@), !.blocks = next]
  <2>4. spans[s] \in Span /\ bs[m] \in Block
    BY <1>1, <2>2, <2>3, ElementOfSeq
  <2>5. spans' = [spans EXCEPT ![s] = obs] /\ UNCHANGED scores
    <3>1. s # 0
      BY <2>3
    <3>2. spans' = [spans EXCEPT ![s].skills = w.list, ![s].entered = TRUE] /\ UNCHANGED scores
      BY <3>1 DEF Propagate
    <3> HIDE DEF s, w
    <3> QED
      BY <1>1, <2>3, <3>2
  <2>6. trace' = [trace EXCEPT ![q] = new]
    <3>1. s # 0
      BY <2>3
    <3>2. trace' = [trace EXCEPT ![q].todo = Tail(@), ![q].blocks[m].list = w.list]
      BY <3>1 DEF Propagate
    <3> QED
      BY <1>1, <3>2 DEF EmitInv, EmitType, Work
  <2>7. /\ obs \in Span /\ obs.of = q /\ obs.given = w.list /\ obs.inside = spans[s].inside
        /\ obs.skills = w.list /\ obs.entered /\ obs.at = spans[s].at
    BY <2>3, <2>4 DEF Span, Lists
  <2>8. b \in Block /\ b.span = s /\ b.list = w.list
    BY <2>3, <2>4 DEF Block
  <2> HIDE DEF s, obs, b
  <2>9. /\ spans' \in Seq(Span) /\ Len(spans') = n
        /\ \A k \in 1..n : spans'[k] = IF k = s THEN obs ELSE spans[k]
    BY <1>1, <2>3, <2>5, <2>7, ExceptSeq
  <2>10. /\ next \in Seq(Block) /\ Len(next) = m
         /\ \A j \in 1..m : next[j] = IF j = m THEN b ELSE bs[j]
    <3> HIDE DEF bs
    <3> QED
      BY <1>1, <2>2, <2>8, ExceptSeq
  <2>11. next # <<>>
    BY <2>3, <2>10, EmptySeq
  <2> HIDE DEF next
  <2>12. /\ new \in Work /\ new.at = "body" /\ new.blocks = next /\ new.todo = <<>>
    BY <1>1, <2>1, <2>10 DEF Work, Todo
  <2> HIDE DEF new
  <2>13. trace'[q] = new
    BY <2>6 DEF EmitInv, EmitType
  <2>14. EmitType'
    <3>1. \A k \in 1..n : spans'[k].inside < k
      BY <2>3, <2>7, <2>9 DEF EmitInv, EmitType
    <3> QED
      BY <2>5, <2>6, <2>9, <2>12, <3>1 DEF EmitInv, EmitType
  <2>15. SkillsOnOwnSpan'
    <3>1. ASSUME NEW k \in 1..n, spans'[k].entered
          PROVE  spans'[k].skills = IF spans'[k].given # NoList THEN spans'[k].given
                                    ELSE IF spans'[k].inside = 0 THEN NoList
                                    ELSE spans'[spans'[k].inside].skills
      <4>1. CASE k = s
        BY <2>3, <2>7, <2>9, <4>1
      <4>2. CASE k # s
        <5>1. spans'[k] = spans[k] /\ spans[k].inside # s
          BY <2>3, <2>9, <4>2
        <5>2. spans[k].skills = IF spans[k].given # NoList THEN spans[k].given
                                ELSE IF spans[k].inside = 0 THEN NoList
                                ELSE spans[spans[k].inside].skills
          BY <1>1, <3>1, <5>1 DEF EmitInv, SkillsOnOwnSpan
        <5>3. spans[k].inside # 0 => spans[k].inside \in 1..n
          <6>1. spans[k] \in Span /\ spans[k].inside < k
            BY <1>1, ElementOfSeq DEF EmitInv, EmitType
          <6> QED
            BY <1>1, <6>1 DEF Span
        <5> QED
          BY <2>9, <5>1, <5>2, <5>3
      <4> QED
        BY <4>1, <4>2
    <3>2. DOMAIN spans' = 1..n
      BY <2>9
    <3> QED
      BY <3>1, <3>2 DEF SkillsOnOwnSpan
  <2>16. Undisturbed(q)
    BY <1>1, <2>3, <2>5, <2>7, <2>9 DEF Undisturbed
  <2>17. ASSUME NEW j \in 1..m
         PROVE  /\ next[j].span = bs[j].span /\ next[j].span \in 1..n
                /\ spans'[next[j].span].of = q /\ spans'[next[j].span].skills = next[j].list
    <3>1. CASE j = m
      BY <2>3, <2>7, <2>8, <2>9, <2>10, <3>1
    <3>2. CASE j # m
      <4>1. next[j] = bs[j] /\ bs[j].span # s
        <5>1. j \in 1..m - 1
          BY <1>1, <3>2
        <5> QED
          BY <2>3, <2>10, <3>2, <5>1
      <4>2. /\ bs[j].span \in 1..n /\ spans[bs[j].span].of = q
            /\ spans[bs[j].span].skills = bs[j].list
        BY <1>1 DEF Nested
      <4> QED
        BY <2>9, <4>1, <4>2
    <3> QED
      BY <3>1, <3>2
  <2>18. ASSUME NEW k \in 1..n, spans'[k].of = q, spans'[k].at = "open"
         PROVE  \E j \in 1..m : next[j].span = k
    <3>1. spans[k].of = q /\ spans[k].at = "open"
      BY <2>3, <2>7, <2>9, <2>18
    <3>2. PICK j \in 1..m : bs[j].span = k
      BY <1>1, <3>1 DEF Nested
    <3> QED
      BY <2>17, <3>2
  <2>19. Nested(q)'
    BY <2>9, <2>10, <2>11, <2>12, <2>13, <2>17, <2>18 DEF Nested
  <2>20. Served(q)' /\ Opening(q)'
    BY <2>12, <2>13 DEF Served, Opening
  <2> QED
    BY <2>6, <2>12, <2>14, <2>15, <2>16, <2>19, <2>20, RequestMoves
<1> QED
  BY <1>3, <1>4

(* Leaving a block ends its observation; the rest of the blocks stay.      *)
LEMMA LeaveStep ==
  ASSUME EmitInv, NEW q \in Request,
         \/ LeaveBlock(q) \/ LeaveTrace(q)
         \/ OpeningFails(q) /\ trace[q].at = "body" /\ Calls(q, "propagate")
  PROVE  EmitInv'
<1> DEFINE n == Len(spans)
           bs == trace[q].blocks
           m == Len(bs)
           s == Top(q).span
<1>1. /\ trace[q] \in Work /\ trace[q].at = "body" /\ bs # <<>> /\ bs \in Seq(Block)
      /\ spans \in Seq(Span) /\ n \in Nat /\ Nested(q)
  <2>1. /\ trace[q] \in Work /\ trace[q].at = "body" /\ spans \in Seq(Span) /\ Nested(q)
    BY DEF LeaveBlock, LeaveTrace, Inside, EmitInv, EmitType
  <2> QED
    BY <2>1 DEF Nested, Work
<1>2. /\ Last(bs) = bs[m] /\ m \in 1..m /\ m \in Nat /\ Front(bs) \in Seq(Block)
      /\ Len(Front(bs)) = m - 1 /\ \A j \in 1..m - 1 : Front(bs)[j] = bs[j]
  <2>1. Len(bs) \in Nat
    BY <1>1, LenProperties
  <2>2. /\ Last(bs) \in Block /\ Last(bs) = bs[Len(bs)] /\ Len(bs) \in 1..Len(bs)
        /\ Front(bs) \in Seq(Block) /\ Len(Front(bs)) = Len(bs) - 1
        /\ \A j \in 1..Len(bs) - 1 : Front(bs)[j] = bs[j]
    <3> HIDE DEF bs
    <3> QED
      BY <1>1, LastBlock
  <2> QED
    BY <2>1, <2>2
<1>3. s = bs[m].span /\ s \in 1..n /\ spans[s].of = q
  BY <1>1, <1>2 DEF Top, Nested
<1>4. spans' = [spans EXCEPT ![s].at = "ended"] /\ UNCHANGED scores
  BY DEF LeaveBlock, LeaveTrace, OpeningFails, End
<1> HIDE DEF s
<1>5. /\ Aged(spans, spans') /\ spans'[s].at = "ended"
      /\ \A k \in 1..n : k # s => spans'[k] = spans[k]
  BY <1>1, <1>3, <1>4, EndAges
<1>6. Undisturbed(q)
  BY <1>1, <1>3, <1>4, <1>5, AgedUndisturbed
<1>7. SkillsOnOwnSpan'
  BY <1>1, <1>5, SkillsAge DEF EmitInv
<1>8. PICK next \in Seq(Block), a \in {"body", "leaving"}, r \in BOOLEAN :
        /\ trace' = [trace EXCEPT ![q] =
             [trace[q] EXCEPT !.at = a, !.blocks = next, !.todo = <<>>, !.raising = r]]
        /\ Len(next) = m - 1 /\ (a = "body" <=> m > 1)
        /\ \A j \in 1..m - 1 : next[j] = bs[j]
  <2>1. CASE LeaveBlock(q)
    <3>1. trace' = [trace EXCEPT ![q] = [trace[q] EXCEPT !.blocks = Front(bs)]]
      BY <2>1 DEF LeaveBlock, EmitInv, EmitType
    <3>2. [trace[q] EXCEPT !.at = "body", !.blocks = Front(bs), !.todo = <<>>,
                           !.raising = trace[q].raising] =
            [trace[q] EXCEPT !.blocks = Front(bs)]
      BY <1>1, <1>2, <2>1 DEF Work, LeaveBlock, Inside
    <3>3. m > 1 /\ trace[q].raising \in BOOLEAN
      BY <1>1, <2>1 DEF LeaveBlock, Work
    <3>4. trace' = [trace EXCEPT ![q] = [trace[q] EXCEPT !.at = "body", !.blocks = Front(bs),
                      !.todo = <<>>, !.raising = trace[q].raising]]
      BY <3>1, <3>2
    <3> QED
      BY <1>2, <3>3, <3>4, Zenon
  <2>2. CASE LeaveTrace(q)
    <3>1. trace' = [trace EXCEPT ![q] = [trace[q] EXCEPT !.at = "leaving", !.blocks = <<>>,
                      !.todo = <<>>, !.raising = trace[q].raising]]
      <4>1. [trace[q] EXCEPT !.at = "leaving", !.blocks = <<>>, !.todo = <<>>,
                             !.raising = trace[q].raising] =
              [trace[q] EXCEPT !.at = "leaving", !.blocks = <<>>]
        BY <1>1, <2>2 DEF Work, LeaveTrace, Inside
      <4>2. trace' = [trace EXCEPT ![q] = [trace[q] EXCEPT !.at = "leaving", !.blocks = <<>>]]
        BY <2>2 DEF LeaveTrace, EmitInv, EmitType
      <4> QED
        BY <4>1, <4>2
    <3>2. m = 1 /\ <<>> \in Seq(Block) /\ Len(<<>>) = 0
      BY <2>2, EmptySeq DEF LeaveTrace
    <3> HIDE DEF m
    <3>3. ~(m > 1) /\ m - 1 = 0 /\ \A j \in 1..m - 1 : <<>>[j] = bs[j]
      BY <3>2
    <3>4. Len(<<>>) = m - 1
      BY <3>2, <3>3
    <3>5. /\ "leaving" \in {"body", "leaving"} /\ ("leaving" = "body" <=> m > 1)
          /\ trace[q].raising \in BOOLEAN
      BY <1>1, <3>3 DEF Work
    <3> QED
      BY <3>1, <3>2, <3>3, <3>4, <3>5, Zenon
  <2>3. CASE OpeningFails(q) /\ trace[q].at = "body" /\ Calls(q, "propagate")
    <3>1. m > 1
      <4>1. Opening(q) /\ trace[q].todo # <<>> /\ Head(trace[q].todo) = "propagate"
        BY <2>3 DEF EmitInv, Calls
      <4> QED
        BY <2>3, <4>1, TodoParts DEF Opening, Bare
    <3>2. trace' = [trace EXCEPT ![q].raising = TRUE, ![q].todo = <<>>, ![q].blocks = Front(@)]
      BY <2>3 DEF OpeningFails
    <3>3. trace' = [trace EXCEPT ![q] = [trace[q] EXCEPT !.raising = TRUE, !.todo = <<>>,
                      !.blocks = Front(bs)]]
      BY <3>2 DEF EmitInv, EmitType, Work
    <3>4. [trace[q] EXCEPT !.at = "body", !.blocks = Front(bs), !.todo = <<>>, !.raising = TRUE] =
            [trace[q] EXCEPT !.raising = TRUE, !.todo = <<>>, !.blocks = Front(bs)]
      BY <1>1, <2>3 DEF Work
    <3>5. trace' = [trace EXCEPT ![q] = [trace[q] EXCEPT !.at = "body", !.blocks = Front(bs),
                      !.todo = <<>>, !.raising = TRUE]]
      BY <3>3, <3>4
    <3> QED
      BY <1>2, <3>1, <3>5, Zenon
  <2> QED
    BY <2>1, <2>2, <2>3
<1> DEFINE new == [trace[q] EXCEPT !.at = a, !.blocks = next, !.todo = <<>>, !.raising = r]
<1>9. new \in Work /\ new.at = a /\ new.blocks = next /\ new.todo = <<>>
  BY <1>1 DEF Work, Todo
<1> HIDE DEF new
<1>10. trace' = [trace EXCEPT ![q] = new] /\ trace'[q] = new
  BY <1>8 DEF EmitInv, EmitType, new
<1>11. (next # <<>>) <=> m > 1
  BY <1>2, <1>8, EmptySeq
<1>12. ASSUME NEW k \in 1..n, spans'[k].of = q, spans'[k].at = "open"
       PROVE  \E j \in 1..m - 1 : next[j].span = k
  <2>1. k # s /\ spans[k].of = q /\ spans[k].at = "open"
    BY <1>5, <1>12 DEF Aged
  <2>2. PICK j \in 1..m : bs[j].span = k
    BY <1>1, <2>1 DEF Nested
  <2>3. j \in 1..m - 1
    BY <1>2, <1>3, <2>1, <2>2
  <2> QED
    BY <1>8, <2>2, <2>3
<1>13. ASSUME NEW j \in 1..m - 1
       PROVE  /\ next[j].span \in 1..n /\ spans'[next[j].span].of = q
              /\ spans'[next[j].span].skills = next[j].list
  <2>1. j \in 1..m /\ next[j] = bs[j]
    BY <1>2, <1>8
  <2>2. /\ bs[j].span \in 1..n /\ spans[bs[j].span].of = q
        /\ spans[bs[j].span].skills = bs[j].list
    BY <1>1, <2>1 DEF Nested
  <2> QED
    BY <1>5, <2>1, <2>2 DEF Aged
<1>14. Nested(q)'
  <2>1. Len(spans') = n
    BY <1>5 DEF Aged
  <2> QED
    BY <1>8, <1>9, <1>10, <1>11, <1>12, <1>13, <2>1 DEF Nested
<1>15. Served(q)' /\ Opening(q)'
  BY <1>9, <1>10 DEF Served, Opening
<1>16. EmitType'
  BY <1>4, <1>5, <1>9, <1>10 DEF EmitInv, EmitType, Aged
<1> QED
  BY <1>6, <1>7, <1>9, <1>10, <1>14, <1>15, <1>16, RequestMoves

(* A call of the SDK that raises leaves the request with nothing to do.    *)
LEMMA OpeningFailsStep ==
  ASSUME EmitInv, NEW q \in Request, OpeningFails(q)
  PROVE  EmitInv'
<1>1. CASE Calls(q, "propagate") /\ trace[q].at = "body"
  BY <1>1, LeaveStep
<1>2. CASE ~(Calls(q, "propagate") /\ trace[q].at = "body")
  <2> DEFINE a == IF trace[q].at = "entering" THEN "leaving" ELSE trace[q].at
             new == [trace[q] EXCEPT !.raising = TRUE, !.todo = <<>>, !.at = a]
  <2>1. trace[q] \in Work /\ trace[q].todo # <<>> /\ Opening(q) /\ Nested(q)
    BY DEF OpeningFails, EmitInv, EmitType
  <2>2. /\ trace[q].at \in {"entering", "body"}
        /\ trace[q].at # "body" => trace[q].blocks = <<>>
    BY <2>1 DEF Opening, Nested
  <2>3. trace' = [trace EXCEPT ![q] = new] /\ UNCHANGED <<spans, scores>>
    BY <1>2 DEF OpeningFails, EmitInv, EmitType
  <2>4. /\ new \in Work /\ new.todo = <<>> /\ new.at = a /\ new.blocks = trace[q].blocks
        /\ new.flushes = trace[q].flushes
    BY <2>1, <2>2 DEF Work, Todo
  <2> HIDE DEF new
  <2>5. trace'[q] = new
    BY <2>3 DEF EmitInv, EmitType
  <2>6. Opening(q)'
    BY <2>4, <2>5 DEF Opening
  <2> QED
    BY <2>2, <2>3, <2>4, <2>6, TraceOnly
<1> QED
  BY <1>1, <1>2

(* The `finally` of a trace sends what the trace opened and scored.        *)
LEMMA FinallyStep ==
  ASSUME EmitInv, NEW q \in Request, Finally(q)
  PROVE  EmitInv'
<1> DEFINE n == Len(spans)
           new == [trace[q] EXCEPT !.at = After(q)]
<1>1. /\ trace[q] \in Work /\ trace[q].at = "leaving" /\ trace[q].blocks = <<>>
      /\ spans \in Seq(Span) /\ n \in Nat /\ Nested(q) /\ scores \subseteq Mark
      /\ trace[q].todo = <<>>
  BY DEF Finally, EmitInv, EmitType, Nested, Opening
<1>2. After(q) \in {"answered", "raised"}
  BY DEF After
<1>3. /\ new \in Work /\ new.at \in {"answered", "raised"} /\ new.blocks = <<>>
      /\ new.flushes = trace[q].flushes /\ new.todo = <<>>
  BY <1>1, <1>2 DEF Work, Done
<1>4. trace' = [trace EXCEPT ![q] = new] /\ trace'[q] = new
  BY DEF Finally, EmitInv, EmitType
<1> HIDE DEF new
<1>5. /\ \A k \in 1..n : spans[k].of = q => spans[k].at # "open"
      /\ Opening(q)'
  BY <1>1, <1>3, <1>4, EmptySeq DEF Nested, Opening
<1>6. CASE trace[q].flushes
  <2>1. spans' = Flushed(spans) /\ scores' = FlushedScores
    BY <1>6 DEF Finally, Flushes
  <2>2. /\ Aged(spans, spans')
        /\ \A k \in 1..n : spans'[k].at = IF spans[k].at = "ended" THEN "sent" ELSE spans[k].at
    BY <1>1, <2>1, FlushAges
  <2>3. scores' \subseteq Mark /\ \A s \in scores' : s.at = "sent"
    BY <1>1, <2>1, FlushedMarks
  <2>4. Undisturbed(q)
    BY <1>1, <2>2, <2>3, AgedUndisturbed
  <2>5. SkillsOnOwnSpan'
    BY <1>1, <2>2, SkillsAge DEF EmitInv
  <2>6. Len(spans') = n /\ spans' \in Seq(Span)
    BY <2>2 DEF Aged
  <2>7. ASSUME NEW k \in 1..n, spans'[k].of = q PROVE spans'[k].at \in {"sent", "lost"}
    <3>1. spans[k].of = q /\ spans[k] \in Span
      BY <1>1, <2>2, <2>7, ElementOfSeq DEF Aged
    <3>2. spans[k].at \in {"ended", "sent", "lost"}
      BY <1>5, <3>1 DEF Span
    <3> QED
      BY <2>2, <3>2
  <2>8. Served(q)'
    BY <2>3, <2>6, <2>7 DEF Served
  <2>9. Nested(q)'
    <3>1. \A k \in 1..n : spans'[k].of = q => spans'[k].at # "open"
      BY <2>7
    <3> QED
      BY <1>3, <1>4, <2>6, <3>1, EmptySeq DEF Nested
  <2>10. EmitType'
    <3>1. \A k \in 1..n : spans'[k].inside < k
      BY <2>2 DEF EmitInv, EmitType, Aged
    <3>2. trace' \in [Request -> Work]
      BY <1>3, <1>4 DEF EmitInv, EmitType
    <3> QED
      BY <2>3, <2>6, <3>1, <3>2 DEF EmitType
  <2> QED
    BY <1>3, <1>4, <1>5, <2>4, <2>5, <2>8, <2>9, <2>10, RequestMoves
<1>7. CASE ~trace[q].flushes
  <2>1. UNCHANGED <<spans, scores>>
    BY <1>7 DEF Finally, Flushes
  <2> QED
    BY <1>1, <1>3, <1>4, <1>5, <1>7, <2>1, TraceOnly
<1> QED
  BY <1>6, <1>7

LEMMA ScoreStep ==
  ASSUME EmitInv, NEW q \in Request, NEW s \in DOMAIN spans, Score(q, s)
  PROVE  EmitInv'
<1> DEFINE new == [of |-> q, on |-> s, late |-> trace[q].at \in Done, at |-> "held"]
<1>1. /\ spans \in Seq(Span) /\ trace[q] \in Work /\ UNCHANGED <<spans, trace>>
      /\ scores' = scores \cup {new}
  BY DEF Score, EmitInv, EmitType
<1>2. new \in Mark /\ new.of = q /\ (new.late <=> trace[q].at \in Done)
  <2>1. (trace[q].at \in Done) \in BOOLEAN
    OBVIOUS
  <2>2. s \in Nat
    BY <1>1, LenProperties
  <2> QED
    BY <2>1, <2>2 DEF Mark
<1> HIDE DEF new
<1>3. EmitType' /\ SkillsOnOwnSpan'
  BY <1>1, <1>2 DEF EmitInv, EmitType, SkillsOnOwnSpan
<1>4. ASSUME NEW r \in Request PROVE Nested(r)' /\ Opening(r)'
  <2>1. Nested(r) /\ Opening(r)
    BY DEF EmitInv
  <2>2. Nested(r)'
    BY <1>1, <2>1 DEF Nested
  <2>3. Bare(r) => Bare(r)'
    BY <1>1 DEF Bare
  <2>4. Opening(r)'
    BY <1>1, <2>1, <2>3 DEF Opening
  <2> QED
    BY <2>2, <2>4
<1>5. DeliveredOnReturn'
  BY <1>1, <1>2 DEF EmitInv, DeliveredOnReturn, Done
<1> QED
  BY <1>3, <1>4, <1>5 DEF EmitInv

(* What is sent between two steps of the requests disturbs none of them.   *)
LEMMA SentBehind ==
  ASSUME EmitInv, UNCHANGED trace, Aged(spans, spans'), scores' \subseteq Mark,
         \A k \in 1..Len(spans) :
           spans[k].at \in {"sent", "lost"} => spans'[k].at \in {"sent", "lost"},
         \A s \in scores' : s \in scores \/ s.at = "sent"
  PROVE  EmitInv'
<1>1. spans \in Seq(Span) /\ spans' \in Seq(Span) /\ Len(spans') = Len(spans)
  BY DEF EmitInv, EmitType, Aged
<1>2. EmitType'
  BY <1>1 DEF EmitInv, EmitType, Aged
<1>3. SkillsOnOwnSpan'
  BY <1>1, SkillsAge DEF EmitInv
<1>4. ASSUME NEW q \in Request PROVE Nested(q)' /\ Opening(q)'
  <2>1. Nested(q) /\ Opening(q)
    BY DEF EmitInv
  <2>2. Nested(q)'
    BY <1>1, <2>1 DEF Nested, Aged
  <2>3. ASSUME Bare(q), trace[q].at = "body" PROVE Bare(q)'
    <3> DEFINE t == trace[q].blocks[Len(trace[q].blocks)].span
    <3>1. t \in 1..Len(spans)
      <4>1. trace[q].blocks \in Seq(Block)
        BY DEF EmitInv, EmitType, Work
      <4>2. Len(trace[q].blocks) \in 1..Len(trace[q].blocks)
        BY <2>3, <4>1 DEF Bare
      <4> QED
        BY <2>1, <4>2 DEF Nested
    <3> QED
      BY <1>1, <2>3, <3>1 DEF Bare, Aged
  <2>4. Opening(q)'
    BY <2>1, <2>3 DEF Opening
  <2> QED
    BY <2>2, <2>4
<1>5. DeliveredOnReturn'
  <2>1. DOMAIN spans = 1..Len(spans) /\ DOMAIN spans' = 1..Len(spans)
    BY <1>1
  <2> QED
    BY <2>1 DEF EmitInv, DeliveredOnReturn, Aged
<1> QED
  BY <1>2, <1>3, <1>4, <1>5 DEF EmitInv

LEMMA EmitInvStep ==
  ASSUME EmitInv, EmitSteps
  PROVE  EmitInv'
<1>1. spans \in Seq(Span) /\ scores \subseteq Mark /\ DOMAIN spans = 1..Len(spans)
  BY DEF EmitInv, EmitType
<1>2. CASE ExplicitFlush
  <2>1. spans' = Flushed(spans) /\ scores' = FlushedScores /\ UNCHANGED trace
    BY <1>2 DEF ExplicitFlush
  <2>2. /\ Aged(spans, spans')
        /\ \A k \in 1..Len(spans) :
             spans'[k].at = IF spans[k].at = "ended" THEN "sent" ELSE spans[k].at
    BY <1>1, <2>1, FlushAges
  <2>3. scores' \subseteq Mark /\ \A s \in scores' : s.at = "sent"
    BY <1>1, <2>1, FlushedMarks
  <2> QED
    BY <2>1, <2>2, <2>3, SentBehind
<1>3. ASSUME NEW s \in DOMAIN spans, Worker(s) PROVE EmitInv'
  <2>1. spans' = [spans EXCEPT ![s].at = "sent"] /\ UNCHANGED <<scores, trace>>
    BY <1>3 DEF Worker
  <2>2. /\ Aged(spans, spans') /\ spans'[s].at = "sent"
        /\ \A k \in 1..Len(spans) : k # s => spans'[k] = spans[k]
    BY <1>1, <1>3, <2>1, EndAges
  <2> QED
    BY <1>1, <2>1, <2>2, SentBehind
<1>4. CASE ProcessDies
  <2>1. \A q \in Request : trace'[q] = Outside
    BY <1>4 DEF ProcessDies
  <2>2. ASSUME NEW k \in 1..Len(spans)
        PROVE  /\ spans'[k] \in Span /\ spans'[k].at \in {"sent", "lost"}
               /\ spans'[k].of = spans[k].of /\ spans'[k].given = spans[k].given
               /\ spans'[k].inside = spans[k].inside /\ spans'[k].skills = spans[k].skills
               /\ (spans'[k].entered <=> spans[k].entered)
    <3>1. spans[k] \in Span
      BY <1>1, ElementOfSeq
    <3>2. spans'[k] = IF spans[k].at = "sent" THEN spans[k] ELSE [spans[k] EXCEPT !.at = "lost"]
      BY <1>1, <1>4 DEF ProcessDies
    <3>3. CASE spans[k].at = "sent"
      BY <3>1, <3>2, <3>3
    <3>4. CASE spans[k].at # "sent"
      <4>1. spans'[k] = [spans[k] EXCEPT !.at = "lost"]
        BY <3>2, <3>4
      <4> DEFINE l == [spans[k] EXCEPT !.at = "lost"]
      <4>2. /\ l \in Span /\ l.at = "lost" /\ l.of = spans[k].of
            /\ l.given = spans[k].given /\ l.inside = spans[k].inside
            /\ l.skills = spans[k].skills /\ (l.entered <=> spans[k].entered)
        BY <3>1, SpanAges
      <4> HIDE DEF l
      <4>3. spans'[k] = l
        BY <4>1 DEF l
      <4> QED
        BY <4>2, <4>3
    <3> QED
      BY <3>3, <3>4
  <2>3. spans' \in Seq(Span) /\ Len(spans') = Len(spans)
    BY <1>1, <1>4, <2>2 DEF ProcessDies
  <2>4. Aged(spans, spans')
    BY <2>2, <2>3 DEF Aged
  <2>5. SkillsOnOwnSpan'
    BY <1>1, <2>4, SkillsAge DEF EmitInv
  <2>6. /\ Outside \in Work /\ Outside.at = "none" /\ Outside.blocks = <<>>
        /\ Outside.todo = <<>>
    BY EmptySeq DEF Outside, Work, Done, Lists, Todo
  <2>7. EmitType'
    BY <1>1, <1>4, <2>2, <2>3, <2>6 DEF ProcessDies, EmitInv, EmitType
  <2>8. \A q \in Request : Nested(q)' /\ Opening(q)'
    BY <2>1, <2>2, <2>3, <2>6, EmptySeq DEF Nested, Opening
  <2>9. DeliveredOnReturn'
    BY <2>1, <2>6 DEF DeliveredOnReturn
  <2> QED
    BY <2>5, <2>7, <2>8, <2>9 DEF EmitInv
<1>5. ASSUME NEW q \in Request, EmitStep(q) PROVE EmitInv'
  BY <1>5, StartTraceStep, StartStep, PropagateStep, OpeningFailsStep, QuietSteps, OpenStep,
     LeaveStep, FinallyStep, ScoreStep DEF EmitStep
<1> QED
  BY <1>2, <1>3, <1>4, <1>5 DEF EmitSteps

---------------------------------------------------------------------------
(* The theorems.                                                           *)

LiveInv == EmitInv /\ CheckInv /\ PublishInv /\ GateInv

LEMMA LiveInvInit ==
  ASSUME Init
  PROVE  LiveInv
<1>1. EmitInv
  <2>1. /\ Outside \in Work /\ Outside.at = "none" /\ Outside.blocks = <<>>
        /\ Outside.todo = <<>>
    BY EmptySeq DEF Outside, Work, Done, Lists, Todo
  <2>2. spans = <<>> /\ scores = {} /\ trace = [q \in Request |-> Outside]
    BY DEF Init, EmitInit
  <2>3. spans \in Seq(Span) /\ Len(spans) = 0 /\ DOMAIN spans = {}
    BY <2>2, EmptySeq
  <2>4. EmitType
    BY <2>1, <2>2, <2>3 DEF EmitType
  <2>5. DeliveredOnReturn /\ SkillsOnOwnSpan
    BY <2>1, <2>2, <2>3 DEF DeliveredOnReturn, SkillsOnOwnSpan
  <2>6. \A q \in Request : Nested(q) /\ Opening(q)
    BY <2>1, <2>2, <2>3 DEF Nested, Opening
  <2> QED
    BY <2>4, <2>5, <2>6 DEF EmitInv
<1>2. CheckInv
  BY UnaskedIsSound DEF Init, SpendingInit, CheckInv
<1>3. PublishInv
  <2>1. Quiet \in Publish /\ Quiet.at = "idle"
    BY DEF Quiet, Publish, Finished, Labels
  <2>2. versions = <<>> /\ abreast = <<>> /\ publish = [p \in Publisher |-> Quiet]
    BY DEF Init, PublishInit
  <2>3. versions \in Seq(Kept) /\ abreast \in Seq(SUBSET Publisher) /\ DOMAIN versions = {}
    BY <2>2, EmptySeq
  <2>4. PublishType
    BY <2>1, <2>2, <2>3 DEF PublishType
  <2>5. NoNeedlessVersion
    BY <2>3 DEF NoNeedlessVersion
  <2>6. \A p \in Publisher : Follows(p)
    BY <2>1, <2>2 DEF Follows, Going
  <2> QED
    BY <2>4, <2>5, <2>6 DEF PublishInv
<1>4. GateInv
  BY EmptyVisit DEF Init, GateInv, FailClosed
<1> QED
  BY <1>1, <1>2, <1>3, <1>4 DEF LiveInv

LEMMA LiveInvStep ==
  ASSUME LiveInv, [Next]_vars
  PROVE  LiveInv'
<1>1. EmitInv'
  <2>1. CASE UNCHANGED emitVars
    BY <2>1 DEF LiveInv, emitVars, EmitInv, EmitType, DeliveredOnReturn, SkillsOnOwnSpan,
       Nested, Opening, Bare
  <2> QED
    BY <2>1, StepParts, EmitInvStep DEF LiveInv
<1>2. CheckInv'
  <2>1. CASE UNCHANGED check
    BY <2>1 DEF LiveInv, CheckInv
  <2> QED
    BY <2>1, StepParts, CheckInvStep DEF LiveInv
<1>3. PublishInv'
  <2>1. CASE UNCHANGED publishVars
    BY <2>1 DEF LiveInv, publishVars, PublishInv, PublishType, NoNeedlessVersion, Follows
  <2> QED
    BY <2>1, StepParts, PublishInvStep DEF LiveInv
<1>4. GateInv'
  BY GateInvStep DEF LiveInv
<1> QED
  BY <1>1, <1>2, <1>3, <1>4 DEF LiveInv

LEMMA Invariance == Spec => []LiveInv
<1>1. Init => LiveInv
  BY LiveInvInit
<1>2. LiveInv /\ [Next]_vars => LiveInv'
  BY LiveInvStep
<1> QED
  BY <1>1, <1>2, PTL DEF Spec

(* When the trace block of a request is over, all it opened and scored has *)
(* left the process, unless its flush failed or was not asked for.         *)
THEOREM DeliveredInTime == Spec => []DeliveredOnReturn
<1>1. LiveInv => DeliveredOnReturn
  BY DEF LiveInv, EmitInv
<1> QED
  BY <1>1, Invariance, PTL

(* An observation whose body was entered has its own list of skills, or    *)
(* the one of the observation that was around it when it was started.      *)
THEOREM SkillsStayPut == Spec => []SkillsOnOwnSpan
<1>1. LiveInv => SkillsOnOwnSpan
  BY DEF LiveInv, EmitInv
<1> QED
  BY <1>1, Invariance, PTL

(* A version that publish returned has the folder's files, and the labels  *)
(* that were asked for unless another publish has labelled that version    *)
(* or has taken a label of it since.                                       *)
THEOREM PublishedRight == Spec => []PublishedAsAsked
<1>1. LiveInv => PublishedAsAsked
  BY AsAsked DEF LiveInv
<1> QED
  BY <1>1, Invariance, PTL

(* The same files are published twice in a row only by a publish that      *)
(* looked before the first had created its version.                        *)
THEOREM NoVersionUnneeded == Spec => []NoNeedlessVersion
<1>1. LiveInv => NoNeedlessVersion
  BY DEF LiveInv, PublishInv
<1> QED
  BY <1>1, Invariance, PTL

(* No paid operation without the proof of the portal, where one is needed, *)
(* and a whole permit for its provider, every byte of it by the deadline.  *)
THEOREM PaidOnlyPermitted == Spec => []FailClosed
<1>1. LiveInv => FailClosed
  BY DEF LiveInv, GateInv
<1> QED
  BY <1>1, Invariance, PTL
=============================================================================
