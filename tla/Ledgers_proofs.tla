--------------------------- MODULE Ledgers_proofs ---------------------------
(* Theorems about the records that decide on an action and its costs: the   *)
(* curated knowledge base, the versioned registry, the authority of a       *)
(* claim, the data assurance behind a disclosure and the billing book.      *)
EXTENDS MCLedgers, FinOpsLedger_proofs

-----------------------------------------------------------------------------
(* The curated knowledge base.                                              *)

\* A review that is being written, with its files in the order of writing.
ReviewInProgress ==
  [draft : Draft, review : ReviewFile,
   files : {<<"review">>, <<"review", "published">>, <<"published">>}]

CurationFiles ==
  /\ kbDraft \in [Draft -> Curator \cup {NoFile.by}]
  /\ kbReview \in [Draft -> ReviewFile \cup {NoFile}]
  /\ kbPublished \in [Draft -> ReviewFile \cup {NoFile}]
  /\ kbReviewing \in ReviewInProgress \cup {NoReview}

\* A review on file, and one being written, is of a draft that was submitted,
\* by someone else where the profile separates them.
ReviewsSeparated ==
  /\ \A d \in Draft : kbReview[d] # NoFile =>
       kbDraft[d] # NoFile.by /\ (Separation => kbReview[d].by # kbDraft[d])
  /\ kbReviewing # NoReview =>
       /\ kbDraft[kbReviewing.draft] # NoFile.by
       /\ Separation => kbReviewing.review.by # kbDraft[kbReviewing.draft]

\* A record is still to come only for an acceptance, and after its review.
PublishedLast ==
  kbReviewing # NoReview =>
    /\ kbReviewing.files = <<"published">> =>
         kbReview[kbReviewing.draft] = kbReviewing.review
    /\ kbReviewing.files # <<"review">> => kbReviewing.review.status = "accepted"

CurationInv ==
  /\ CurationFiles
  /\ ReviewsSeparated
  /\ PublishedLast
  /\ PublishedAsReviewed

LEMMA CurationInvInit == CurationInit => CurationInv
BY DEF CurationInit, CurationInv, CurationFiles, ReviewsSeparated, PublishedLast,
       PublishedAsReviewed

\* A review that is started has its files in order.
LEMMA ReviewStarts ==
  ASSUME CurationInv, NEW d \in Draft, NEW p \in Curator,
         NEW status \in {"accepted", "rejected"}, ReviewDraft(d, p, status)
  PROVE  CurationInv'
<1> DEFINE next == [draft |-> d, review |-> [by |-> p, status |-> status],
                    files |-> FilesOf(status)]
<1>1. next \in ReviewInProgress /\ next # NoReview
  BY DEF ReviewInProgress, ReviewFile, FilesOf, NoReview
<1>2. /\ kbReviewing' = next /\ UNCHANGED <<kbDraft, kbReview, kbPublished>>
      /\ kbDraft[d] # NoFile.by /\ (Separation => p # kbDraft[d])
  BY DEF ReviewDraft
<1>3. CurationFiles' /\ ReviewsSeparated' /\ PublishedAsReviewed'
  BY <1>1, <1>2 DEF CurationInv, CurationFiles, ReviewsSeparated, PublishedAsReviewed
<1>4. PublishedLast'
  BY <1>2 DEF PublishedLast, FilesOf
<1> QED
  BY <1>3, <1>4 DEF CurationInv

\* What is left of a review after one of its files.
LEMMA RestOfReview ==
  ASSUME CurationFiles, kbReviewing.files # <<>>
  PROVE  /\ kbReviewing \in ReviewInProgress /\ kbReviewing # NoReview
         /\ kbReviewing.draft \in Draft /\ kbReviewing.review \in ReviewFile
         /\ Head(kbReviewing.files) = "review" =>
              \/ /\ kbReviewing.files = <<"review">>
                 /\ Rest(Tail(kbReviewing.files)) = NoReview
              \/ /\ kbReviewing.files = <<"review", "published">>
                 /\ Rest(Tail(kbReviewing.files)) =
                      [draft |-> kbReviewing.draft, review |-> kbReviewing.review,
                       files |-> <<"published">>]
         /\ Head(kbReviewing.files) = "published" =>
              /\ kbReviewing.files = <<"published">>
              /\ Rest(Tail(kbReviewing.files)) = NoReview
<1>1. kbReviewing # NoReview
  BY DEF NoReview
<1>2. /\ kbReviewing \in ReviewInProgress
      /\ kbReviewing.draft \in Draft /\ kbReviewing.review \in ReviewFile
  BY <1>1 DEF CurationFiles, ReviewInProgress
<1>3. CASE kbReviewing.files = <<"review">>
  BY <1>1, <1>2, <1>3 DEF Rest
<1>4. CASE kbReviewing.files = <<"published">>
  BY <1>1, <1>2, <1>4 DEF Rest
<1>5. CASE kbReviewing.files = <<"review", "published">>
  <2>1. Tail(kbReviewing.files) = <<"published">> /\ Head(kbReviewing.files) = "review"
    BY <1>5
  <2>2. Rest(<<"published">>) = [kbReviewing EXCEPT !.files = <<"published">>]
    BY DEF Rest
  <2>3. [kbReviewing EXCEPT !.files = <<"published">>] =
          [draft |-> kbReviewing.draft, review |-> kbReviewing.review,
           files |-> <<"published">>]
    BY <1>2 DEF ReviewInProgress
  <2> QED
    BY <1>1, <1>2, <1>5, <2>1, <2>2, <2>3
<1>6. kbReviewing.files \in {<<"review">>, <<"review", "published">>, <<"published">>}
  BY <1>2 DEF ReviewInProgress
<1> QED
  BY <1>3, <1>4, <1>5, <1>6

LEMMA ReviewWritten ==
  ASSUME CurationInv, WriteReviewFile
  PROVE  CurationInv'
<1> DEFINE d == kbReviewing.draft
<1>1. CurationFiles /\ kbReviewing.files # <<>> /\ Head(kbReviewing.files) = "review"
  BY DEF CurationInv, WriteReviewFile
<1>2. /\ d \in Draft /\ kbReviewing.review \in ReviewFile /\ kbReviewing # NoReview
      /\ \/ kbReviewing' = NoReview
         \/ /\ kbReviewing.files = <<"review", "published">>
            /\ kbReviewing' = [draft |-> d, review |-> kbReviewing.review,
                               files |-> <<"published">>]
  BY <1>1, RestOfReview DEF WriteReviewFile
<1>3. /\ kbReview[d] = NoFile
      /\ kbReview' = [kbReview EXCEPT ![d] = kbReviewing.review]
      /\ UNCHANGED <<kbDraft, kbPublished>>
  BY DEF WriteReviewFile
<1>4. kbReview'[d] = kbReviewing.review /\ \A c \in Draft \ {d} : kbReview'[c] = kbReview[c]
  BY <1>1, <1>2, <1>3 DEF CurationFiles
<1>5. CurationFiles'
  <2>1. kbReview' \in [Draft -> ReviewFile \cup {NoFile}]
    BY <1>1, <1>2, <1>3 DEF CurationFiles
  <2>2. kbReviewing' \in ReviewInProgress \cup {NoReview}
    BY <1>2 DEF ReviewInProgress
  <2> QED
    BY <1>1, <1>3, <2>1, <2>2 DEF CurationFiles
<1>6. ReviewsSeparated'
  <2>1. /\ kbDraft[d] # NoFile.by
        /\ Separation => kbReviewing.review.by # kbDraft[d]
    BY <1>2 DEF CurationInv, ReviewsSeparated
  <2>2. \A c \in Draft : kbReview'[c] # NoFile =>
          kbDraft[c] # NoFile.by /\ (Separation => kbReview'[c].by # kbDraft[c])
    BY <1>4, <2>1 DEF CurationInv, ReviewsSeparated
  <2>3. kbReviewing' # NoReview =>
          kbReviewing'.draft = d /\ kbReviewing'.review = kbReviewing.review
    BY <1>2
  <2> HIDE DEF d
  <2> QED
    BY <1>3, <2>1, <2>2, <2>3 DEF ReviewsSeparated
<1>7. PublishedLast'
  <2>1. CASE kbReviewing' = NoReview
    BY <2>1 DEF PublishedLast
  <2>2. CASE kbReviewing' # NoReview
    <3>1. kbReviewing.review.status = "accepted"
      <4>1. kbReviewing.files = <<"review", "published">>
        BY <1>2, <2>2
      <4>2. kbReviewing.files # <<"review">>
        BY <4>1
      <4> QED
        BY <1>2, <4>2 DEF CurationInv, PublishedLast
    <3>2. /\ kbReviewing'.draft = d /\ kbReviewing'.review = kbReviewing.review
          /\ kbReviewing'.files = <<"published">>
      BY <1>2, <2>2
    <3> QED
      BY <1>4, <3>1, <3>2 DEF PublishedLast
  <2> QED
    BY <2>1, <2>2
<1>8. PublishedAsReviewed'
  <2>1. \A c \in Draft : kbPublished[c] # NoFile => kbReview[c] = kbPublished[c]
    BY DEF CurationInv, PublishedAsReviewed
  <2>2. \A c \in Draft : kbPublished[c] # NoFile => c # d
    BY <1>3, <2>1
  <2> QED
    BY <1>3, <1>4, <2>2 DEF CurationInv, PublishedAsReviewed
<1> QED
  BY <1>5, <1>6, <1>7, <1>8 DEF CurationInv

LEMMA RecordWritten ==
  ASSUME CurationInv, WritePublishedFile
  PROVE  CurationInv'
<1> DEFINE d == kbReviewing.draft
<1>1. CurationFiles /\ kbReviewing.files # <<>> /\ Head(kbReviewing.files) = "published"
  BY DEF CurationInv, WritePublishedFile
<1>2. /\ d \in Draft /\ kbReviewing.review \in ReviewFile /\ kbReviewing # NoReview
      /\ kbReviewing.files = <<"published">> /\ kbReviewing' = NoReview
  BY <1>1, RestOfReview DEF WritePublishedFile
<1>3. /\ kbPublished' = [kbPublished EXCEPT ![d] = kbReviewing.review]
      /\ UNCHANGED <<kbDraft, kbReview>>
  BY DEF WritePublishedFile
<1>4. /\ kbPublished'[d] = kbReviewing.review
      /\ \A c \in Draft \ {d} : kbPublished'[c] = kbPublished[c]
  BY <1>1, <1>2, <1>3 DEF CurationFiles
<1>5. CurationFiles'
  BY <1>1, <1>2, <1>3 DEF CurationFiles
<1>6. /\ kbReview[d] = kbReviewing.review
      /\ kbReviewing.review.status = "accepted"
      /\ Separation => kbReviewing.review.by # kbDraft[d]
  <2>1. <<"published">> # <<"review">>
    OBVIOUS
  <2> QED
    BY <1>2, <2>1 DEF CurationInv, PublishedLast, ReviewsSeparated
<1>7. ReviewsSeparated' /\ PublishedLast'
  BY <1>2, <1>3 DEF CurationInv, ReviewsSeparated, PublishedLast
<1>8. PublishedAsReviewed'
  BY <1>3, <1>4, <1>6 DEF CurationInv, PublishedAsReviewed
<1> QED
  BY <1>5, <1>7, <1>8 DEF CurationInv

LEMMA CurationInvNext == CurationInv /\ [CurationNext]_kbVars => CurationInv'
<1> SUFFICES ASSUME CurationInv, [CurationNext]_kbVars PROVE CurationInv'
  OBVIOUS
<1> USE DEF CurationInv, CurationFiles, ReviewsSeparated, PublishedLast, PublishedAsReviewed
<1>1. ASSUME NEW d \in Draft, NEW p \in Curator, SubmitDraft(d, p)
      PROVE  CurationInv'
  BY <1>1 DEF SubmitDraft
<1>2. CASE ReviewInterrupted
  BY <1>2 DEF ReviewInterrupted
<1>3. CASE UNCHANGED kbVars
  BY <1>3 DEF kbVars
<1> HIDE DEF CurationInv
<1> QED
  BY <1>1, <1>2, <1>3, ReviewStarts, ReviewWritten, RecordWritten DEF CurationNext

\* Wherever the server stops, a published record names the one review of its
\* draft, which accepted it and is not its author's where they are separated.
THEOREM RecordsReviewed == CurationSpec => []PublishedAsReviewed
<1>1. CurationInit => CurationInv
  BY CurationInvInit
<1>2. CurationInv /\ [CurationNext]_kbVars => CurationInv'
  BY CurationInvNext
<1>3. CurationInv => PublishedAsReviewed
  BY DEF CurationInv
<1> QED
  BY <1>1, <1>2, <1>3, PTL DEF CurationSpec

\* Files and the review being written are of the shape they are read with.
THEOREM CurationTyped == CurationSpec => []CurationTypeOK
<1>1. CurationInit => CurationInv
  BY CurationInvInit
<1>2. CurationInv /\ [CurationNext]_kbVars => CurationInv'
  BY CurationInvNext
<1>3. CurationInv => CurationTypeOK
  <2> SUFFICES ASSUME CurationInv PROVE CurationTypeOK
    OBVIOUS
  <2>1. CASE kbReviewing = NoReview
    BY <2>1 DEF CurationInv, CurationFiles, CurationTypeOK, NoReview
  <2>2. CASE kbReviewing \in ReviewInProgress
    <3>1. /\ <<"review">> \in Seq({"review", "published"})
          /\ <<"published">> \in Seq({"review", "published"})
          /\ <<"review", "published">> \in Seq({"review", "published"})
      OBVIOUS
    <3>2. /\ kbReviewing.draft \in Draft /\ kbReviewing.review \in ReviewFile
          /\ kbReviewing.files \in {<<"review">>, <<"review", "published">>, <<"published">>}
      BY <2>2 DEF ReviewInProgress
    <3>3. kbReviewing.files \in Seq({"review", "published"})
      BY <3>1, <3>2
    <3> QED
      BY <3>2, <3>3 DEF CurationInv, CurationFiles, CurationTypeOK
  <2> QED
    BY <2>1, <2>2 DEF CurationInv, CurationFiles
<1> QED
  BY <1>1, <1>2, <1>3, PTL DEF CurationSpec

-----------------------------------------------------------------------------
(* The versioned registry.                                                  *)

\* Profiles that a decision was or will be stored for.
ProfilesInUse == arDecided \cup ({arReading} \ {NoProfile})

\* Each is on record as it was read, at a version that is not ahead of the
\* current one; what is current is on record; and of every kind but policies no
\* row is ahead of it.
ProfilesRecorded ==
  \A p \in ProfilesInUse : arRow["profile"][p[1]] = p[2] /\ p[1] <= arCurrent["profile"]

CurrentRecorded ==
  \A k \in Kind : arCurrent[k] # 0 => arRow[k][arCurrent[k]] \in Text

NewestCurrent ==
  \A k \in Kind \ {"policy"}, v \in RegVersion : arRow[k][v] # NoText => v <= arCurrent[k]

RegistryInv ==
  /\ RegistryTypeOK
  /\ ProfilesRecorded
  /\ CurrentRecorded
  /\ NewestCurrent

LEMMA Kinds ==
  /\ "policy" \in Kind /\ "profile" \in Kind
  /\ RegVersion \subseteq Nat \ {0} /\ 0 \notin RegVersion
BY RegistryAssumption DEF Kind

LEMMA RegistryInvInit == RegistryInit => RegistryInv
<1> SUFFICES ASSUME RegistryInit PROVE RegistryInv
  OBVIOUS
<1>1. RegistryTypeOK
  BY DEF RegistryInit, RegistryTypeOK
<1>2. ProfilesInUse = {}
  BY DEF RegistryInit, ProfilesInUse
<1> QED
  BY <1>1, <1>2 DEF RegistryInit, RegistryInv, ProfilesRecorded, CurrentRecorded, NewestCurrent

\* What a registration writes, and leaves.
LEMMA WriteRow ==
  ASSUME RegistryTypeOK, NEW k \in Kind, NEW v \in RegVersion, NEW text \in Text,
         Write(k, v, text)
  PROVE  /\ RegistryTypeOK' /\ UNCHANGED <<arReading, arDecided>>
         /\ arRow'[k][v] = text /\ arCurrent'[k] = v
         /\ \A w \in RegVersion \ {v} : arRow'[k][w] = arRow[k][w]
         /\ \A j \in Kind \ {k} : arRow'[j] = arRow[j] /\ arCurrent'[j] = arCurrent[j]
BY DEF RegistryTypeOK, Write

\* A version that is newer than the current one is not on record for a profile
\* in use; one that is current is only written with what it says.
LEMMA WriteKeeps ==
  ASSUME RegistryInv, NEW k \in Kind, NEW v \in RegVersion, NEW text \in Text,
         Write(k, v, text),
         \/ Newer(k, v)
         \/ k = "policy"
         \/ v = arCurrent[k] /\ arRow[k][arCurrent[k]] = text
  PROVE  RegistryInv'
<1>0. /\ RegistryTypeOK /\ ProfilesRecorded /\ CurrentRecorded /\ NewestCurrent
      /\ RegVersion \subseteq Nat \ {0} /\ "profile" \in Kind
  BY Kinds DEF RegistryInv
<1>1. /\ RegistryTypeOK' /\ UNCHANGED <<arReading, arDecided>>
      /\ arRow'[k][v] = text /\ arCurrent'[k] = v
      /\ \A w \in RegVersion \ {v} : arRow'[k][w] = arRow[k][w]
      /\ \A j \in Kind \ {k} : arRow'[j] = arRow[j] /\ arCurrent'[j] = arCurrent[j]
  BY <1>0, WriteRow
<1>2. /\ arCurrent[k] \in Nat /\ v \in Nat /\ v # 0
      /\ \A w \in RegVersion : w \in Nat /\ w # 0
  <2>1. \A w \in RegVersion : w \in Nat /\ w # 0
    BY <1>0
  <2>2. arCurrent[k] \in RegVersion \cup {0}
    BY <1>0 DEF RegistryTypeOK
  <2> QED
    BY <2>1, <2>2
<1>3. ProfilesRecorded'
  <2>1. ProfilesInUse' = ProfilesInUse
    BY <1>1 DEF ProfilesInUse
  <2>2. \A p \in ProfilesInUse : p[1] \in RegVersion
    BY <1>0 DEF ProfilesInUse, RegistryTypeOK, Profiles, NoProfile
  <2>3. ASSUME NEW p \in ProfilesInUse
        PROVE  arRow'["profile"][p[1]] = p[2] /\ p[1] <= arCurrent'["profile"]
    <3>1. arRow["profile"][p[1]] = p[2] /\ p[1] <= arCurrent["profile"] /\ p[1] \in RegVersion
      BY <1>0, <2>2 DEF ProfilesRecorded
    <3>2. CASE k # "profile"
      BY <1>0, <1>1, <3>1, <3>2
    <3>3. CASE k = "profile" /\ Newer(k, v)
      <4>1. p[1] < v
        BY <1>2, <3>1, <3>3 DEF Newer
      <4>2. p[1] \in RegVersion \ {v} /\ p[1] <= v
        <5>1. p[1] \in Nat /\ v \in Nat
          BY <1>2, <3>1
        <5>2. p[1] <= v /\ p[1] # v
          BY <4>1, <5>1
        <5> QED
          BY <3>1, <5>2
      <4> QED
        BY <1>1, <3>1, <3>3, <4>2
    <3>4. CASE k = "profile" /\ v = arCurrent[k] /\ arRow[k][arCurrent[k]] = text
      BY <1>1, <3>1, <3>4
    <3> QED
      BY <3>2, <3>3, <3>4
  <2> QED
    BY <2>1, <2>3 DEF ProfilesRecorded
<1>4. CurrentRecorded'
  BY <1>0, <1>1 DEF CurrentRecorded
<1>5. NewestCurrent'
  <2>1. ASSUME NEW j \in Kind \ {"policy"}, NEW w \in RegVersion, arRow'[j][w] # NoText
        PROVE  w <= arCurrent'[j]
    <3>1. CASE j # k
      BY <1>0, <1>1, <2>1, <3>1 DEF NewestCurrent
    <3>2. CASE j = k /\ w = v
      BY <1>1, <1>2, <3>2
    <3>3. CASE j = k /\ w # v
      <4>1. w <= arCurrent[k]
        BY <1>0, <1>1, <2>1, <3>3 DEF NewestCurrent
      <4>2. w \in Nat /\ w # 0 /\ arCurrent[k] \in Nat /\ v \in Nat
        BY <1>2
      <4>3. arCurrent[k] # 0
        BY <4>1, <4>2
      <4>4. arCurrent[k] <= v
        <5>1. CASE Newer(k, v)
          BY <4>2, <4>3, <5>1 DEF Newer
        <5>2. CASE v = arCurrent[k]
          BY <4>2, <5>2
        <5> QED
          BY <2>1, <3>3, <5>1, <5>2
      <4>5. w <= v
        BY <4>1, <4>2, <4>4
      <4> QED
        BY <1>1, <3>3, <4>5
    <3> QED
      BY <3>1, <3>2, <3>3
  <2> QED
    BY <2>1 DEF NewestCurrent
<1> QED
  BY <1>1, <1>3, <1>4, <1>5 DEF RegistryInv

LEMMA RegistryInvNext == RegistryInv /\ [RegistryNext]_arVars => RegistryInv'
<1> SUFFICES ASSUME RegistryInv, [RegistryNext]_arVars PROVE RegistryInv'
  OBVIOUS
<1>1. ASSUME NEW v \in RegVersion, NEW text \in Text, NEW k \in Replaced, Register(k, v, text)
      PROVE  RegistryInv'
  BY <1>1, WriteKeeps DEF Register, SameDigest, Kind
<1>2. ASSUME NEW v \in RegVersion, NEW text \in Text, NEW k \in Kept, RegisterOnce(k, v, text)
      PROVE  RegistryInv'
  BY <1>2, WriteKeeps DEF RegisterOnce, Kind
<1>3. ASSUME NEW b \in Bundled, BootstrapPolicy(b)
      PROVE  RegistryInv'
  <2>1. b.version \in RegVersion /\ b.text \in Text
    BY RegistryAssumption
  <2> QED
    BY <1>3, <2>1, Kinds, WriteKeeps DEF BootstrapPolicy
<1>4. CASE GetProfile
  <2>1. /\ arCurrent["profile"] \in RegVersion
        /\ arRow["profile"][arCurrent["profile"]] \in Text
    BY <1>4, Kinds DEF GetProfile, RegistryInv, RegistryTypeOK, CurrentRecorded
  <2> DEFINE p == <<arCurrent["profile"], arRow["profile"][arCurrent["profile"]]>>
  <2>2. arReading' = p /\ UNCHANGED <<arRow, arCurrent, arDecided>> /\ p \in Profiles
    BY <1>4, <2>1 DEF GetProfile, Profiles
  <2>3. RegistryTypeOK'
    BY <2>2 DEF RegistryInv, RegistryTypeOK
  <2>4. \A q \in ProfilesInUse' : q \in ProfilesInUse \/ q = p
    BY <2>2 DEF ProfilesInUse
  <2>5. p[1] = arCurrent["profile"] /\ p[2] = arRow["profile"][arCurrent["profile"]]
        /\ p[1] <= arCurrent["profile"]
    <3>1. arCurrent["profile"] \in Nat
      BY <2>1, Kinds
    <3> QED
      BY <3>1
  <2>6. ProfilesRecorded'
    <3> HIDE DEF p
    <3> QED
      BY <2>2, <2>4, <2>5 DEF RegistryInv, ProfilesRecorded
  <2> QED
    BY <2>2, <2>3, <2>6 DEF RegistryInv, CurrentRecorded, NewestCurrent
<1>5. CASE StoreDecision
  <2>1. ProfilesInUse' = ProfilesInUse /\ UNCHANGED <<arRow, arCurrent>>
    BY <1>5 DEF StoreDecision, ProfilesInUse
  <2>2. RegistryTypeOK'
    BY <1>5 DEF StoreDecision, RegistryInv, RegistryTypeOK
  <2> QED
    BY <2>1, <2>2 DEF RegistryInv, ProfilesRecorded, CurrentRecorded, NewestCurrent
<1>6. CASE UNCHANGED arVars
  BY <1>6 DEF arVars, RegistryInv, RegistryTypeOK, ProfilesRecorded, ProfilesInUse,
              CurrentRecorded, NewestCurrent
<1> QED
  BY <1>1, <1>2, <1>3, <1>4, <1>5, <1>6 DEF RegistryNext

\* The profile a decision was made under stays on record under its version,
\* whatever is registered later, and of every kind but policies the newest
\* version is current.
THEOREM ProfilesKept == RegistrySpec => []DecidedProfilesKept
<1>1. RegistryInit => RegistryInv
  BY RegistryInvInit
<1>2. RegistryInv /\ [RegistryNext]_arVars => RegistryInv'
  BY RegistryInvNext
<1>3. RegistryInv => DecidedProfilesKept
  BY DEF RegistryInv, DecidedProfilesKept, ProfilesRecorded, ProfilesInUse, NewestCurrent
<1> QED
  BY <1>1, <1>2, <1>3, PTL DEF RegistrySpec

\* A row holds a registered text, and a decision a profile.
THEOREM RegistryTyped == RegistrySpec => []RegistryTypeOK
<1>1. RegistryInit => RegistryInv
  BY RegistryInvInit
<1>2. RegistryInv /\ [RegistryNext]_arVars => RegistryInv'
  BY RegistryInvNext
<1>3. RegistryInv => RegistryTypeOK
  BY DEF RegistryInv
<1> QED
  BY <1>1, <1>2, <1>3, PTL DEF RegistrySpec

-----------------------------------------------------------------------------
(* The authority of a claim.  What reaches a party is defined along the     *)
(* chain, so first that there is such a function.                           *)

Start0 == [at |-> Human, scopes |-> Scope]

\* What the n-th link passes on.
Passed(reached, n) ==
  [at |-> auClaim.chain[n].to,
   scopes |-> IF auClaim.chain[n].from = reached.at
              THEN reached.scopes \cap auClaim.chain[n].scopes ELSE {}]

ReachesUpTo(g, N) == g = [n \in 0..N |-> IF n = 0 THEN Start0 ELSE Passed(g[n - 1], n)]

LEMMA ReachesAgree ==
  ASSUME NEW g, NEW h, NEW M \in Nat, NEW N \in Nat, ReachesUpTo(g, M), ReachesUpTo(h, N),
         NEW n \in 0..M, n \in 0..N
  PROVE  g[n] = h[n]
<1> DEFINE Bad == {i \in Nat : i <= M /\ i <= N /\ g[i] # h[i]}
<1>1. SUFFICES ASSUME Bad # {} PROVE FALSE
  OBVIOUS
<1>2. PICK i \in Bad : \A j \in Bad : i <= j
  BY <1>1, LeastNatural
<1>3. /\ g[i] = IF i = 0 THEN Start0 ELSE Passed(g[i - 1], i)
      /\ h[i] = IF i = 0 THEN Start0 ELSE Passed(h[i - 1], i)
  BY DEF ReachesUpTo
<1>4. i # 0 /\ g[i - 1] = h[i - 1]
  <2>1. i # 0
    BY <1>3
  <2>2. i - 1 \in Nat /\ i - 1 <= M /\ i - 1 <= N /\ ~(i <= i - 1)
    BY <2>1
  <2> QED
    BY <1>2, <2>1, <2>2
<1> QED
  BY <1>3, <1>4

LEMMA ReachesExist ==
  ASSUME NEW N \in Nat
  PROVE  \E g : ReachesUpTo(g, N)
<1> DEFINE Bad == {i \in Nat : ~ \E g : ReachesUpTo(g, i)}
<1>1. SUFFICES ASSUME Bad # {} PROVE FALSE
  OBVIOUS
<1>2. PICK i \in Bad : \A j \in Bad : i <= j
  BY <1>1, LeastNatural
<1>3. i # 0
  <2> DEFINE g == [n \in 0..0 |-> Start0]
  <2>1. ReachesUpTo(g, 0)
    BY DEF ReachesUpTo
  <2>2. \E h : ReachesUpTo(h, 0)
    BY <2>1
  <2> QED
    BY <2>2
<1>4. PICK g : ReachesUpTo(g, i - 1)
  <2>1. i - 1 \in Nat /\ ~(i <= i - 1)
    BY <1>3
  <2>2. i - 1 \notin Bad
    BY <1>2, <2>1
  <2> QED
    BY <2>1, <2>2
<1> DEFINE h == [n \in 0..i |-> IF n = i THEN Passed(g[i - 1], i) ELSE g[n]]
<1>5. ReachesUpTo(h, i)
  <2>1. \A n \in 0..(i - 1) : g[n] = IF n = 0 THEN Start0 ELSE Passed(g[n - 1], n)
    BY <1>4 DEF ReachesUpTo
  <2>2. ASSUME NEW n \in 0..i
        PROVE  h[n] = IF n = 0 THEN Start0 ELSE Passed(h[n - 1], n)
    <3>1. CASE n = i
      <4>1. h[n] = Passed(g[i - 1], i) /\ i - 1 \in 0..i /\ i - 1 # i
        BY <1>3, <3>1
      <4>2. h[i - 1] = g[i - 1]
        BY <4>1
      <4> QED
        BY <1>3, <3>1, <4>1, <4>2
    <3>2. CASE n # i
      <4>1. n \in 0..(i - 1) /\ h[n] = g[n]
        BY <3>2
      <4>2. CASE n = 0
        BY <2>1, <4>1, <4>2
      <4>3. CASE n # 0
        <5>1. n - 1 \in 0..i /\ n - 1 # i
          BY <4>1, <4>3
        <5>2. h[n - 1] = g[n - 1]
          BY <5>1
        <5> QED
          BY <2>1, <4>1, <4>3, <5>2
      <4> QED
        BY <4>2, <4>3
    <3> QED
      BY <3>1, <3>2
  <2>3. h = [n \in 0..i |-> h[n]]
    OBVIOUS
  <2> HIDE DEF h
  <2> QED
    BY <2>2, <2>3 DEF ReachesUpTo
<1> QED
  BY <1>2, <1>5

\* The defining equation of what reaches the n-th party.
LEMMA ReachingIs ==
  /\ Reaching[0] = Start0
  /\ \A n \in Nat \ {0} : Reaching[n] = Passed(Reaching[n - 1], n)
<1> DEFINE G(N) == CHOOSE g : ReachesUpTo(g, N)
           all == [n \in Nat |-> G(n)[n]]
           Fits(f) == f = [n \in Nat |-> IF n = 0 THEN Start0 ELSE Passed(f[n - 1], n)]
<1>1. \A N \in Nat : ReachesUpTo(G(N), N)
  BY ReachesExist
<1>2. ASSUME NEW n \in Nat
      PROVE  all[n] = IF n = 0 THEN Start0 ELSE Passed(all[n - 1], n)
  <2>1. G(n)[n] = IF n = 0 THEN Start0 ELSE Passed(G(n)[n - 1], n)
    <3>1. ReachesUpTo(G(n), n)
      BY <1>1
    <3> HIDE DEF G
    <3> QED
      BY <3>1 DEF ReachesUpTo
  <2>2. ASSUME n # 0 PROVE G(n)[n - 1] = G(n - 1)[n - 1]
    <3>1. /\ n - 1 \in Nat /\ n - 1 \in 0..n /\ n - 1 \in 0..(n - 1)
          /\ ReachesUpTo(G(n), n) /\ ReachesUpTo(G(n - 1), n - 1)
      BY <1>1, <2>2
    <3> HIDE DEF G
    <3> QED
      BY <3>1, ReachesAgree
  <2>3. all[n] = G(n)[n] /\ (n # 0 => all[n - 1] = G(n - 1)[n - 1])
    <3> HIDE DEF G
    <3> QED
      OBVIOUS
  <2> HIDE DEF G, all
  <2> QED
    BY <2>1, <2>2, <2>3
<1>3. Fits(all)
  <2>1. all = [n \in Nat |-> all[n]]
    BY DEF all
  <2> HIDE DEF all
  <2> QED
    BY <1>2, <2>1
<1>4. Reaching = CHOOSE f : Fits(f)
  BY DEF Reaching, Start0, Passed
<1>5. Fits(Reaching)
  <2>1. \E f : Fits(f)
    BY <1>3
  <2> HIDE DEF Fits
  <2> QED
    BY <1>4, <2>1
<1> QED
  BY <1>5

\* What reaches the n-th party along a valid chain is what its link grants:
\* no link widens the one before it, and each begins where that ended.
LEMMA ReachedAlong ==
  ASSUME ValidContext(auClaim), auClaim.chain \in Seq(Link), NEW n \in 1..Len(auClaim.chain)
  PROVE  Reaching[n] = [at |-> auClaim.chain[n].to, scopes |-> auClaim.chain[n].scopes]
<1> DEFINE chain == auClaim.chain
           Granted(i) == [at |-> chain[i].to, scopes |-> chain[i].scopes]
           Bad == {i \in Nat : i \in 1..Len(chain) /\ Reaching[i] # Granted(i)}
<1>0. n \in Nat /\ (Reaching[n] # Granted(n) => n \in Bad) /\ Bad \in SUBSET Nat
  OBVIOUS
<1>1. SUFFICES ASSUME Bad # {} PROVE FALSE
  BY <1>0
<1>2. PICK i \in Bad : \A j \in Bad : i <= j
  BY <1>0, <1>1, LeastNatural
<1>3. /\ i \in Nat \ {0} /\ i \in 1..Len(chain) /\ Len(chain) \in Nat
      /\ Contiguous(chain, i) /\ Narrowing(chain, i)
      /\ chain[i] \in Link
  BY DEF ValidContext
<1>4. Reaching[i] = Passed(Reaching[i - 1], i)
  BY <1>3, ReachingIs
<1>5. CASE i = 1
  <2>1. Reaching[0] = Start0 /\ i - 1 = 0
    BY <1>5, ReachingIs
  <2>2. chain[i].from = Human /\ chain[i].scopes \subseteq Scope
    BY <1>3, <1>5 DEF Contiguous, Link
  <2>3. Passed(Start0, i) = Granted(i)
    BY <2>2 DEF Passed, Start0
  <2> QED
    BY <1>2, <1>4, <2>1, <2>3
<1>6. CASE i # 1
  <2>1. i - 1 \in Nat /\ i - 1 \in 1..Len(chain) /\ ~(i <= i - 1)
    BY <1>3, <1>6
  <2>2. Reaching[i - 1] = Granted(i - 1)
    BY <1>2, <2>1
  <2>3. chain[i].from = chain[i - 1].to /\ chain[i].scopes \subseteq chain[i - 1].scopes
    BY <1>3, <1>6 DEF Contiguous, Narrowing
  <2>4. Passed(Granted(i - 1), i) = Granted(i)
    BY <2>3 DEF Passed
  <2> QED
    BY <1>2, <1>4, <2>2, <2>4
<1> QED
  BY <1>5, <1>6

\* Only a valid context that the policy allows is allowed.
AuthorityInv ==
  /\ auClaim \in AuthorityClaim /\ auProfile \in AuthorityProfile
  /\ AuthorityTypeOK
  /\ auDecision = "allowed" =>
       ValidContext(auClaim) /\ ActionDecision(auClaim, auProfile, auApproval) = "allowed"

LEMMA AllowedReaches == AuthorityInv => AllowedReachesAgent
<1> SUFFICES ASSUME AuthorityInv, auDecision = "allowed"
             PROVE  /\ Reaching[Len(auClaim.chain)].at = auClaim.agent
                    /\ auClaim.requested \subseteq Reaching[Len(auClaim.chain)].scopes
                    /\ \A i \in 1..Len(auClaim.chain) : auClaim.chain[i].live
                    /\ \A s \in auClaim.requested : \E g \in auProfile.scopes : s \in Under[g]
                    /\ auProfile.validation => auApproval = "approved"
  BY DEF AllowedReachesAgent
<1>1. /\ ValidContext(auClaim)
      /\ ~Violated(auClaim, auProfile, auApproval) /\ ~RequiresApproval(auProfile, auApproval)
      /\ auClaim.chain \in Seq(Link) /\ auClaim.requested \subseteq Scope
  BY AuthorityAssumption DEF AuthorityInv, ActionDecision
<1> DEFINE n == Len(auClaim.chain)
<1>2. n \in Nat /\ Terminal(auClaim) /\ \A i \in 1..n : auClaim.chain[i].live
  BY <1>1 DEF ValidContext
<1>3. /\ \A s \in auClaim.requested : \E g \in auProfile.scopes : s \in Under[g]
      /\ auProfile.validation => auApproval = "approved"
  BY <1>1 DEF Violated, ScopeAllowed, RequiresApproval
<1>4. Reaching[n].at = auClaim.agent /\ auClaim.requested \subseteq Reaching[n].scopes
  <2>1. CASE auClaim.chain = <<>>
    <3>1. n = 0 /\ Reaching[0] = Start0 /\ Human = auClaim.agent
      BY <1>2, <2>1, ReachingIs DEF Terminal
    <3> QED
      BY <1>1, <3>1 DEF Start0
  <2>2. CASE auClaim.chain # <<>>
    <3>1. n \in 1..n
      BY <1>1, <1>2, <2>2
    <3>2. Reaching[n] = [at |-> auClaim.chain[n].to, scopes |-> auClaim.chain[n].scopes]
      BY <1>1, <3>1, ReachedAlong
    <3> QED
      BY <1>2, <2>2, <3>2 DEF Terminal
  <2> QED
    BY <2>1, <2>2
<1> QED
  BY <1>2, <1>3, <1>4

\* An allowed claim asks for what reached its agent from the human along the
\* whole chain, and its profile covers that too, for chains of every length.
THEOREM AllowedWasDelegated == AuthoritySpec => []AllowedReachesAgent
<1>1. AuthorityInit => AuthorityInv
  BY DEF AuthorityInit, AuthorityInv, AuthorityTypeOK
<1>2. AuthorityInv /\ [VerifyAuthority]_auVars => AuthorityInv'
  BY DEF AuthorityInv, AuthorityTypeOK, VerifyAuthority, auVars, ActionDecision
<1> QED
  BY <1>1, <1>2, AllowedReaches, PTL DEF AuthoritySpec

-----------------------------------------------------------------------------
(* The data assurance behind a disclosure.                                  *)

\* The rows of the three tables, without the bounds of a small instance.
DecisionRecord ==
  [status : {"allowed", "denied", "review_required"}, subject : Subject, decidedAt : Nat,
   expiresAt : Int, policy : DOMAIN Policies, basis : SUBSET Content,
   invalidated : BOOLEAN]
ContractRecord == [status : {"active"}, decision : Decision, issuedAt : Nat, expiresAt : Int]
ExecutionRecord == [status : {"started", "verified", "mismatch", "inconclusive"},
                    contract : Contract, startedAt : Nat, observedAt : Nat]

DataTables ==
  /\ daNow \in Nat
  /\ daEvidence \in [EvidenceId -> Content \cup {NotStored}]
  /\ daPolicy \in DOMAIN Policies \cup {0}
  /\ daDecision \in [Decision -> DecisionRecord \cup {NotStored}]
  /\ daContract \in [Contract -> ContractRecord \cup {NotStored}]
  /\ daExecution \in [Execution -> ExecutionRecord \cup {NotStored}]
  /\ daSignalled \in [Subject -> Int]

\* No decision was made, no execution started and no signal sent after now, and
\* no reference observed more than Tolerance after now.
NothingAhead ==
  /\ \A i \in EvidenceId :
       daEvidence[i] # NotStored => daEvidence[i].observedAt <= daNow + Tolerance
  /\ \A d \in Decision : daDecision[d] # NotStored => daDecision[d].decidedAt <= daNow
  /\ \A x \in Execution : daExecution[x] # NotStored => daExecution[x].startedAt <= daNow
  /\ \A s \in Subject : daSignalled[s] <= daNow

\* An allowed decision expires before any of its evidence runs out or is too old.
Covered(row, e) ==
  /\ e.claim # "unmet" /\ e.observedAt <= row.decidedAt + Tolerance
  /\ row.expiresAt <= e.validUntil
  /\ Policies[row.policy].maxAge # NoLimit =>
       row.expiresAt <= e.observedAt + Policies[row.policy].maxAge

DecisionsCovered ==
  \A d \in Decision : daDecision[d] # NotStored /\ daDecision[d].status = "allowed" =>
    \A e \in daDecision[d].basis : Covered(daDecision[d], e)

\* A contract ends with an allowed decision, however early or late its stamp.
InDecision(row, decision) ==
  /\ decision # NotStored /\ decision.status = "allowed"
  /\ row.expiresAt <= decision.expiresAt

ContractsInWindow ==
  \A c \in Contract : daContract[c] # NotStored =>
    InDecision(daContract[c], daDecision[daContract[c].decision])

\* An execution starts before its contract ends, after the decision and before a
\* signal that invalidates it.
InWindow(run, contract) ==
  /\ contract # NotStored
  /\ run.startedAt < contract.expiresAt
  /\ run.status = "verified" => run.observedAt <= contract.expiresAt

ExecutionsInWindow ==
  \A x \in Execution : daExecution[x] # NotStored =>
    InWindow(daExecution[x], daContract[daExecution[x].contract])

UnderDecision(run, decision) ==
  /\ decision.decidedAt <= run.startedAt
  /\ decision.invalidated => run.startedAt <= daSignalled[decision.subject]

StartedUnderDecision ==
  \A x \in Execution : daExecution[x] # NotStored =>
    UnderDecision(daExecution[x], daDecision[daContract[daExecution[x].contract].decision])

DataInv ==
  /\ DataTables
  /\ NothingAhead
  /\ DecisionsCovered
  /\ ContractsInWindow
  /\ ExecutionsInWindow
  /\ StartedUnderDecision

\* What the records say.
LEMMA ContentFields ==
  ASSUME NEW e \in Content
  PROVE  /\ e.claim \in {"met", "unmet", "silent"} /\ e.subject \in Subject
         /\ e.observedAt \in Nat /\ e.validUntil \in Nat /\ e.observedAt < e.validUntil
BY DataAssumption DEF EvidenceContent

LEMMA PolicyFields ==
  ASSUME NEW v \in DOMAIN Policies
  PROVE  /\ Policies[v].maxAge \in Int
         /\ Policies[v].maxAge # NoLimit => Policies[v].maxAge \in Nat
         /\ Policies[v].onMissing # "allowed"
BY DataAssumption DEF FitnessPolicy, NoLimit

LEMMA DecisionFields ==
  ASSUME NEW row \in DecisionRecord
  PROVE  /\ row # NotStored
         /\ row.status \in {"allowed", "denied", "review_required"} /\ row.subject \in Subject
         /\ row.decidedAt \in Nat /\ row.expiresAt \in Int /\ row.policy \in DOMAIN Policies
         /\ row.basis \subseteq Content /\ row.invalidated \in BOOLEAN
BY DEF DecisionRecord, NotStored

LEMMA ContractFields ==
  ASSUME NEW row \in ContractRecord
  PROVE  /\ row # NotStored /\ row.decision \in Decision
         /\ row.issuedAt \in Nat /\ row.expiresAt \in Int
BY DEF ContractRecord, NotStored

LEMMA ExecutionFields ==
  ASSUME NEW run \in ExecutionRecord
  PROVE  /\ run # NotStored /\ run.contract \in Contract
         /\ run.startedAt \in Nat /\ run.observedAt \in Nat
BY DEF ExecutionRecord, NotStored

LEMMA Instants == Day \subseteq Stamp /\ Stamp \subseteq Nat /\ Tolerance \in Nat
BY DataAssumption DEF Day, Stamp

\* The least of a set of instants.
LEMMA LeastInstant ==
  ASSUME NEW S \in SUBSET Nat, S # {}
  PROVE  Min(S) \in Nat /\ \A n \in S : Min(S) <= n
<1>1. \E m \in S : \A n \in S : m <= n
  BY LeastNatural
<1> QED
  BY <1>1 DEF Min

\* A decision of the fitness of what is usable.
LEMMA FitnessDecided ==
  ASSUME DataTables, NothingAhead, NEW s \in Subject, NEW v \in DOMAIN Policies,
         NEW row, NEW basis, basis = Usable(s),
         row = [status |-> FitnessStatus(Policies[v], basis), subject |-> s,
                decidedAt |-> daNow, expiresAt |-> FitnessExpiry(Policies[v], basis),
                policy |-> v, basis |-> basis, invalidated |-> FALSE]
  PROVE  /\ row \in DecisionRecord
         /\ row.status = "allowed" => \A e \in row.basis : Covered(row, e)
<1> DEFINE p == Policies[v]
           ends == {e.validUntil : e \in basis}
                   \cup {e.observedAt + p.maxAge :
                           e \in IF p.maxAge = NoLimit THEN {} ELSE basis}
<1>1. /\ row.status = FitnessStatus(p, basis) /\ row.expiresAt = FitnessExpiry(p, basis)
      /\ row.policy = v /\ row.basis = basis /\ row.decidedAt = daNow
  OBVIOUS
<1>2. /\ basis \subseteq Content
      /\ \A e \in basis : /\ e.observedAt <= daNow + Tolerance
                          /\ e.observedAt \in Nat /\ e.validUntil \in Nat
  <2>1. \A e \in basis : \E i \in EvidenceId : e = daEvidence[i] /\ e # NotStored
    BY DEF Usable
  <2>2. basis \subseteq Content
    BY <2>1 DEF DataTables
  <2> QED
    BY <2>1, <2>2, ContentFields DEF NothingAhead
<1>3. daNow \in Nat /\ p.maxAge \in Int /\ (p.maxAge # NoLimit => p.maxAge \in Nat)
      /\ p.onMissing # "allowed"
  BY PolicyFields DEF DataTables
<1>4. FitnessStatus(p, basis) \in {"allowed", "denied", "review_required"}
  BY DataAssumption DEF FitnessStatus, FitnessPolicy
<1>5. FitnessExpiry(p, basis) \in Int
      /\ \A e \in basis : /\ FitnessExpiry(p, basis) <= e.validUntil
                          /\ p.maxAge # NoLimit =>
                               FitnessExpiry(p, basis) <= e.observedAt + p.maxAge
  <2>1. CASE basis = {}
    BY <1>3, <2>1 DEF FitnessExpiry
  <2>2. CASE basis # {}
    <3>1. ends \in SUBSET Nat /\ ends # {}
      <4>1. ends # {}
        BY <2>2
      <4>2. \A e \in basis : e.validUntil \in Nat
        BY <1>2
      <4>3. ASSUME p.maxAge # NoLimit, NEW e \in basis PROVE e.observedAt + p.maxAge \in Nat
        <5>1. e.observedAt \in Nat /\ p.maxAge \in Nat
          BY <1>2, <1>3, <4>3
        <5> QED
          BY <5>1
      <4>4. \A n \in ends : n \in Nat
        BY <4>2, <4>3
      <4> HIDE DEF ends
      <4> QED
        BY <4>1, <4>4
    <3>2. FitnessExpiry(p, basis) = Min(ends)
      BY <2>2 DEF FitnessExpiry
    <3>3. Min(ends) \in Nat /\ \A n \in ends : Min(ends) <= n
      <4> HIDE DEF ends
      <4> QED
        BY <3>1, LeastInstant
    <3>4. ASSUME NEW e \in basis
          PROVE  /\ e.validUntil \in ends
                 /\ p.maxAge # NoLimit => e.observedAt + p.maxAge \in ends
      OBVIOUS
    <3> HIDE DEF ends
    <3> QED
      BY <3>2, <3>3, <3>4
  <2> QED
    BY <2>1, <2>2
<1>6. row \in DecisionRecord
  <2>1. FitnessExpiry(Policies[v], basis) \in Int
    BY <1>5
  <2>2. FitnessStatus(Policies[v], basis) \in {"allowed", "denied", "review_required"}
    BY <1>4
  <2> QED
    BY <1>2, <1>3, <2>1, <2>2 DEF DecisionRecord
<1>7. ASSUME FitnessStatus(p, basis) = "allowed", NEW e \in basis
      PROVE  e.claim # "unmet"
  <2> DEFINE asserted == {f.claim : f \in basis} \ {"silent"}
  <2>1. "fail" \notin Checks(p, basis) /\ "unknown" \notin Checks(p, basis)
    BY <1>3, <1>7 DEF FitnessStatus
  <2>2. asserted = {"met"}
    BY <2>1 DEF Checks
  <2>3. e.claim \in asserted \/ e.claim = "silent"
    OBVIOUS
  <2> QED
    BY <2>2, <2>3
<1>8. ASSUME row.status = "allowed", NEW e \in basis
      PROVE  Covered(row, e)
  <2>1. Policies[row.policy].maxAge = p.maxAge
    BY <1>1
  <2>2. e.claim # "unmet" /\ e.observedAt <= row.decidedAt + Tolerance
    BY <1>1, <1>2, <1>7, <1>8
  <2>3. /\ row.expiresAt <= e.validUntil
        /\ p.maxAge # NoLimit => row.expiresAt <= e.observedAt + p.maxAge
    BY <1>1, <1>5
  <2> QED
    BY <2>1, <2>2, <2>3 DEF Covered
<1> QED
  BY <1>1, <1>6, <1>8

LEMMA DataInvInit == DataInit => DataInv
<1> SUFFICES ASSUME DataInit PROVE DataInv
  OBVIOUS
<1>1. DataTables /\ NothingAhead
  BY DEF DataInit, DataTables, NothingAhead
<1> QED
  BY <1>1 DEF DataInit, DataInv, DecisionsCovered, ContractsInWindow, ExecutionsInWindow,
              StartedUnderDecision

LEMMA EvidenceImported ==
  ASSUME DataInv, NEW i \in EvidenceId, NEW e \in Content, RegisterExternalEvidence(i, e)
  PROVE  DataInv'
<1>1. /\ daEvidence' = [daEvidence EXCEPT ![i] = e] /\ e.observedAt <= daNow + Tolerance
      /\ UNCHANGED <<daNow, daPolicy, daDecision, daContract, daExecution, daSignalled>>
  BY DEF RegisterExternalEvidence
<1>2. DataTables'
  BY <1>1 DEF DataInv, DataTables
<1>3. NothingAhead'
  BY <1>1 DEF DataInv, DataTables, NothingAhead
<1> QED
  BY <1>1, <1>2, <1>3 DEF DataInv, DecisionsCovered, ContractsInWindow, ExecutionsInWindow,
                          StartedUnderDecision, UnderDecision

LEMMA FitnessEvaluated ==
  ASSUME DataInv, NEW d \in Decision, NEW s \in Subject, EvaluateDataFitness(d, s)
  PROVE  DataInv'
<1> DEFINE row == [status |-> FitnessStatus(Policies[daPolicy], Usable(s)), subject |-> s,
                   decidedAt |-> daNow,
                   expiresAt |-> FitnessExpiry(Policies[daPolicy], Usable(s)),
                   policy |-> daPolicy, basis |-> Usable(s), invalidated |-> FALSE]
<1>1. /\ daDecision[d] = NotStored /\ daPolicy # 0
      /\ daDecision' = [daDecision EXCEPT ![d] = row]
      /\ UNCHANGED <<daNow, daEvidence, daPolicy, daContract, daExecution, daSignalled>>
  BY DEF EvaluateDataFitness, NextOf
<1>2. /\ row \in DecisionRecord
      /\ row.status = "allowed" => \A e \in row.basis : Covered(row, e)
  <2>1. daPolicy \in DOMAIN Policies
    BY <1>1 DEF DataInv, DataTables
  <2> QED
    BY <2>1, FitnessDecided DEF DataInv
<1>3. row.decidedAt = daNow
  OBVIOUS
<1> HIDE DEF row
<1>4. /\ daDecision'[d] = row
      /\ \A b \in Decision \ {d} : daDecision'[b] = daDecision[b]
      /\ \A b \in Decision : daDecision[b] # NotStored => daDecision'[b] = daDecision[b]
  BY <1>1 DEF DataInv, DataTables
<1>5. DataTables'
  BY <1>1, <1>2 DEF DataInv, DataTables
<1>6. NothingAhead'
  <2>1. \A b \in Decision : daDecision'[b] # NotStored => daDecision'[b].decidedAt <= daNow
    <3>1. daNow <= daNow
      BY DEF DataInv, DataTables
    <3> QED
      BY <1>3, <1>4, <3>1 DEF DataInv, NothingAhead
  <2> QED
    BY <1>1, <2>1 DEF DataInv, NothingAhead
<1>7. DecisionsCovered'
  <2>1. ASSUME NEW b \in Decision, daDecision'[b] # NotStored,
               daDecision'[b].status = "allowed", NEW e \in daDecision'[b].basis
        PROVE  Covered(daDecision'[b], e)
    BY <1>2, <1>4, <2>1 DEF DataInv, DecisionsCovered
  <2> QED
    BY <2>1 DEF DecisionsCovered, Covered
<1>8. ContractsInWindow'
  <2>1. ASSUME NEW c \in Contract, daContract[c] # NotStored
        PROVE  InDecision(daContract[c], daDecision'[daContract[c].decision])
    <3>1. daContract[c].decision \in Decision
      BY <2>1, ContractFields DEF DataInv, DataTables
    <3>2. InDecision(daContract[c], daDecision[daContract[c].decision])
      BY <2>1 DEF DataInv, ContractsInWindow
    <3> QED
      BY <1>4, <3>1, <3>2 DEF InDecision
  <2> QED
    BY <1>1, <2>1 DEF ContractsInWindow, InDecision
<1>9. ExecutionsInWindow' /\ StartedUnderDecision'
  <2>1. ASSUME NEW x \in Execution, daExecution[x] # NotStored
        PROVE  daDecision'[daContract[daExecution[x].contract].decision]
                 = daDecision[daContract[daExecution[x].contract].decision]
    <3>1. /\ daExecution[x].contract \in Contract
          /\ daContract[daExecution[x].contract] # NotStored
      BY <2>1, ExecutionFields DEF DataInv, DataTables, ExecutionsInWindow, InWindow
    <3>2. /\ daContract[daExecution[x].contract].decision \in Decision
          /\ daDecision[daContract[daExecution[x].contract].decision] # NotStored
      BY <3>1, ContractFields DEF DataInv, DataTables, ContractsInWindow, InDecision
    <3> QED
      BY <1>4, <3>2
  <2>2. ExecutionsInWindow'
    BY <1>1 DEF DataInv, ExecutionsInWindow
  <2> QED
    BY <1>1, <2>1, <2>2 DEF DataInv, StartedUnderDecision, UnderDecision
<1> QED
  BY <1>5, <1>6, <1>7, <1>8, <1>9 DEF DataInv

LEMMA ContractRegistered ==
  ASSUME DataInv, NEW c \in Contract, NEW d \in Decision, NEW issued \in Stamp,
         NEW expires \in Int, RegisterDisclosureContract(c, d, issued, expires)
  PROVE  DataInv'
<1> DEFINE row == [status |-> "active", decision |-> d, issuedAt |-> issued,
                   expiresAt |-> expires]
<1>1. /\ daContract[c] = NotStored
      /\ daContract' = [daContract EXCEPT ![c] = row]
      /\ UNCHANGED <<daNow, daEvidence, daPolicy, daDecision, daExecution, daSignalled>>
  BY DEF RegisterDisclosureContract
<1>2. row \in ContractRecord /\ row.decision = d
  BY Instants DEF ContractRecord
<1>3. InDecision(row, daDecision[d])
  BY DEF RegisterDisclosureContract, CurrentlyAllowed, InDecision
<1> HIDE DEF row
<1>4. /\ daContract'[c] = row
      /\ \A b \in Contract : daContract[b] # NotStored => daContract'[b] = daContract[b]
      /\ \A b \in Contract \ {c} : daContract'[b] = daContract[b]
  BY <1>1 DEF DataInv, DataTables
<1>5. DataTables'
  BY <1>1, <1>2 DEF DataInv, DataTables
<1>6. NothingAhead' /\ DecisionsCovered'
  BY <1>1 DEF DataInv, NothingAhead, DecisionsCovered
<1>7. ContractsInWindow'
  BY <1>1, <1>2, <1>3, <1>4 DEF DataInv, ContractsInWindow
<1>8. \A x \in Execution : daExecution[x] # NotStored =>
        daContract'[daExecution[x].contract] = daContract[daExecution[x].contract]
  BY <1>4, ExecutionFields DEF DataInv, DataTables, ExecutionsInWindow, InWindow
<1>9. ExecutionsInWindow' /\ StartedUnderDecision'
  BY <1>1, <1>8 DEF DataInv, ExecutionsInWindow, StartedUnderDecision, UnderDecision
<1> QED
  BY <1>5, <1>6, <1>7, <1>9 DEF DataInv

\* A signal changes no more of a row than its invalidation.
LEMMA SignalIngested ==
  ASSUME DataInv, NEW s \in Subject, IngestAssuranceSignal(s)
  PROVE  DataInv'
<1>1. /\ daSignalled' = [daSignalled EXCEPT ![s] = daNow]
      /\ UNCHANGED <<daNow, daEvidence, daPolicy, daContract, daExecution>>
      /\ daDecision' = [d \in Decision |-> daDecision'[d]]
      /\ \A d \in Decision : daDecision'[d] =
           IF daDecision[d] # NotStored /\ daDecision[d].status = "allowed"
              /\ daDecision[d].subject = s
           THEN [daDecision[d] EXCEPT !.invalidated = TRUE] ELSE daDecision[d]
  BY DEF IngestAssuranceSignal
<1>2. ASSUME NEW row \in DecisionRecord
      PROVE  LET changed == [row EXCEPT !.invalidated = TRUE] IN
             /\ changed \in DecisionRecord /\ changed # NotStored
             /\ changed.status = row.status /\ changed.subject = row.subject
             /\ changed.decidedAt = row.decidedAt /\ changed.expiresAt = row.expiresAt
             /\ changed.policy = row.policy /\ changed.basis = row.basis
  BY DEF DecisionRecord, NotStored
<1>3. ASSUME NEW d \in Decision
      PROVE  /\ daDecision[d] = NotStored => daDecision'[d] = NotStored
             /\ daDecision[d] # NotStored =>
                  LET row == daDecision[d] new == daDecision'[d] IN
                  /\ new \in DecisionRecord /\ new # NotStored
                  /\ new.status = row.status /\ new.subject = row.subject
                  /\ new.decidedAt = row.decidedAt /\ new.expiresAt = row.expiresAt
                  /\ new.policy = row.policy /\ new.basis = row.basis
                  /\ row.subject # s => new.invalidated = row.invalidated
  <2>1. CASE daDecision[d] = NotStored
    BY <1>1, <2>1
  <2>2. CASE daDecision[d] # NotStored
    <3>1. daDecision[d] \in DecisionRecord
      BY <2>2 DEF DataInv, DataTables
    <3> QED
      BY <1>1, <1>2, <2>2, <3>1
  <2> QED
    BY <2>1, <2>2
<1>4. DataTables'
  <2>1. \A d \in Decision : daDecision'[d] \in DecisionRecord \cup {NotStored}
    BY <1>3
  <2>2. daDecision' \in [Decision -> DecisionRecord \cup {NotStored}]
    BY <1>1, <2>1
  <2>3. daSignalled' \in [Subject -> Int]
    BY <1>1 DEF DataInv, DataTables
  <2> QED
    BY <1>1, <2>2, <2>3 DEF DataInv, DataTables
<1>5. /\ daSignalled'[s] = daNow /\ \A t \in Subject \ {s} : daSignalled'[t] = daSignalled[t]
      /\ daNow \in Nat /\ daNow <= daNow
  BY <1>1 DEF DataInv, DataTables
<1>6. NothingAhead'
  BY <1>1, <1>3, <1>5 DEF DataInv, NothingAhead
<1>7. DecisionsCovered'
  <2>1. ASSUME NEW d \in Decision, daDecision'[d] # NotStored,
               daDecision'[d].status = "allowed", NEW e \in daDecision'[d].basis
        PROVE  Covered(daDecision'[d], e)
    <3>1. daDecision[d] # NotStored
      BY <1>3, <2>1
    <3>2. Covered(daDecision[d], e)
      BY <1>3, <2>1, <3>1 DEF DataInv, DecisionsCovered
    <3> QED
      BY <1>3, <3>1, <3>2 DEF Covered
  <2> QED
    BY <2>1 DEF DecisionsCovered, Covered
<1>8. ContractsInWindow'
  <2>1. ASSUME NEW c \in Contract, daContract[c] # NotStored
        PROVE  InDecision(daContract[c], daDecision'[daContract[c].decision])
    <3>1. daContract[c].decision \in Decision
      BY <2>1, ContractFields DEF DataInv, DataTables
    <3>2. InDecision(daContract[c], daDecision[daContract[c].decision])
      BY <2>1 DEF DataInv, ContractsInWindow
    <3> QED
      BY <1>3, <3>1, <3>2 DEF InDecision
  <2> QED
    BY <1>1, <2>1 DEF ContractsInWindow, InDecision
<1>9. ExecutionsInWindow'
  BY <1>1 DEF DataInv, ExecutionsInWindow
<1>10. StartedUnderDecision'
  <2>1. ASSUME NEW x \in Execution, daExecution[x] # NotStored,
               NEW d \in Decision, d = daContract[daExecution[x].contract].decision,
               daDecision[d] # NotStored, daDecision'[d].invalidated
        PROVE  daExecution[x].startedAt <= daSignalled'[daDecision'[d].subject]
    <3>1. daDecision'[d].subject = daDecision[d].subject
      BY <1>3, <2>1
    <3>2. CASE daDecision[d].subject = s
      BY <1>5, <2>1, <3>1, <3>2 DEF DataInv, NothingAhead
    <3>3. CASE daDecision[d].subject # s
      <4>1. daDecision'[d].invalidated = daDecision[d].invalidated
        BY <1>3, <2>1, <3>3
      <4>2. daDecision[d].subject \in Subject
        BY <2>1, DecisionFields DEF DataInv, DataTables
      <4>3. daExecution[x].startedAt <= daSignalled[daDecision[d].subject]
        BY <2>1, <4>1 DEF DataInv, StartedUnderDecision, UnderDecision
      <4> QED
        BY <1>5, <3>1, <3>3, <4>2, <4>3
    <3> QED
      BY <3>2, <3>3
  <2>2. ASSUME NEW x \in Execution, daExecution[x] # NotStored
        PROVE  LET d == daContract[daExecution[x].contract].decision IN
               /\ d \in Decision /\ daDecision[d] # NotStored
               /\ daDecision'[d].decidedAt <= daExecution[x].startedAt
    <3>1. /\ daExecution[x].contract \in Contract
          /\ daContract[daExecution[x].contract] # NotStored
      BY <2>2, ExecutionFields DEF DataInv, DataTables, ExecutionsInWindow, InWindow
    <3>2. LET d == daContract[daExecution[x].contract].decision IN
          d \in Decision /\ daDecision[d] # NotStored
      BY <3>1, ContractFields DEF DataInv, DataTables, ContractsInWindow, InDecision
    <3> QED
      BY <1>3, <2>2, <3>2 DEF DataInv, StartedUnderDecision, UnderDecision
  <2>3. ASSUME NEW x \in Execution, daExecution[x] # NotStored
        PROVE  UnderDecision(daExecution[x],
                             daDecision[daContract[daExecution[x].contract].decision])'
    <3> DEFINE d == daContract[daExecution[x].contract].decision
    <3>1. d \in Decision /\ daDecision[d] # NotStored
          /\ daDecision'[d].decidedAt <= daExecution[x].startedAt
      BY <2>2, <2>3
    <3>2. daDecision'[d].invalidated =>
            daExecution[x].startedAt <= daSignalled'[daDecision'[d].subject]
      BY <2>1, <2>3, <3>1
    <3> QED
      BY <1>1, <3>1, <3>2 DEF UnderDecision
  <2> QED
    BY <1>1, <2>3 DEF StartedUnderDecision
<1> QED
  BY <1>4, <1>6, <1>7, <1>8, <1>9, <1>10 DEF DataInv

LEMMA ExecutionStarted ==
  ASSUME DataInv, NEW x \in Execution, NEW c \in Contract, StartExecution(x, c)
  PROVE  DataInv'
<1> DEFINE run == [status |-> "started", contract |-> c, startedAt |-> daNow,
                   observedAt |-> daNow]
<1>1. /\ daExecution' = [daExecution EXCEPT ![x] = run]
      /\ UNCHANGED <<daNow, daEvidence, daPolicy, daDecision, daContract, daSignalled>>
  BY DEF StartExecution
<1>2. /\ run \in ExecutionRecord /\ run.contract = c /\ run.startedAt = daNow
      /\ daNow \in Nat /\ daNow <= daNow
  BY DEF ExecutionRecord, DataInv, DataTables
<1>3. /\ InWindow(run, daContract[c])
      /\ daDecision[daContract[c].decision].decidedAt <= daNow
      /\ daDecision[daContract[c].decision].invalidated = FALSE
  <2>1. /\ daContract[c] # NotStored /\ CurrentlyAllowed(daContract[c].decision)
        /\ daContract[c].expiresAt > daNow
    BY DEF StartExecution, BindingAllowed
  <2>2. daContract[c].expiresAt \in Int /\ daContract[c].decision \in Decision
    BY <2>1, ContractFields DEF DataInv, DataTables
  <2>3. daDecision[daContract[c].decision].invalidated \in BOOLEAN
    BY <2>1, <2>2, DecisionFields DEF CurrentlyAllowed, DataInv, DataTables
  <2>4. daDecision[daContract[c].decision].decidedAt <= daNow
    BY <2>1, <2>2 DEF CurrentlyAllowed, DataInv, NothingAhead
  <2> QED
    BY <1>2, <2>1, <2>2, <2>3, <2>4 DEF InWindow, CurrentlyAllowed
<1> HIDE DEF run
<1>4. daExecution'[x] = run /\ \A y \in Execution \ {x} : daExecution'[y] = daExecution[y]
  BY <1>1 DEF DataInv, DataTables
<1>5. DataTables'
  BY <1>1, <1>2 DEF DataInv, DataTables
<1>6. NothingAhead'
  BY <1>1, <1>2, <1>4 DEF DataInv, NothingAhead
<1>7. DecisionsCovered' /\ ContractsInWindow'
  BY <1>1 DEF DataInv, DecisionsCovered, ContractsInWindow
<1>8. ExecutionsInWindow'
  BY <1>1, <1>2, <1>3, <1>4 DEF DataInv, ExecutionsInWindow
<1>9. StartedUnderDecision'
  <2>1. UnderDecision(run, daDecision[daContract[run.contract].decision])
    BY <1>2, <1>3 DEF UnderDecision
  <2>2. ASSUME NEW y \in Execution, daExecution'[y] # NotStored
        PROVE  UnderDecision(daExecution'[y],
                             daDecision[daContract[daExecution'[y].contract].decision])
    BY <1>4, <2>1, <2>2 DEF DataInv, StartedUnderDecision
  <2> QED
    BY <1>1, <2>2 DEF StartedUnderDecision, UnderDecision
<1> QED
  BY <1>5, <1>6, <1>7, <1>8, <1>9 DEF DataInv

\* The receipt of a disclosure: inside the contract if it is verified.
LEMMA ReceiptCreated ==
  ASSUME DataInv, NEW x \in Execution, NEW run \in ExecutionRecord,
         daExecution[x] # NotStored, daExecution' = [daExecution EXCEPT ![x] = run],
         run.contract = daExecution[x].contract, run.startedAt = daExecution[x].startedAt,
         run.status = "verified" => run.observedAt <= daContract[run.contract].expiresAt,
         UNCHANGED <<daNow, daEvidence, daPolicy, daDecision, daContract, daSignalled>>
  PROVE  DataInv'
<1>1. daExecution'[x] = run /\ \A y \in Execution \ {x} : daExecution'[y] = daExecution[y]
  BY DEF DataInv, DataTables
<1>2. DataTables'
  BY DEF DataInv, DataTables
<1>3. NothingAhead' /\ DecisionsCovered' /\ ContractsInWindow'
  BY <1>1 DEF DataInv, NothingAhead, DecisionsCovered, ContractsInWindow
<1>4. ExecutionsInWindow'
  <2>1. InWindow(run, daContract[run.contract])
    BY DEF DataInv, ExecutionsInWindow, InWindow
  <2> QED
    BY <1>1, <2>1 DEF DataInv, ExecutionsInWindow
<1>5. StartedUnderDecision'
  <2>1. ASSUME NEW y \in Execution, daExecution'[y] # NotStored
        PROVE  /\ daExecution[y] # NotStored
               /\ daExecution'[y].contract = daExecution[y].contract
               /\ daExecution'[y].startedAt = daExecution[y].startedAt
    BY <1>1, <2>1
  <2>2. ASSUME NEW y \in Execution, daExecution'[y] # NotStored
        PROVE  UnderDecision(daExecution'[y],
                             daDecision[daContract[daExecution'[y].contract].decision])
    <3>1. UnderDecision(daExecution[y],
                        daDecision[daContract[daExecution[y].contract].decision])
      BY <2>1, <2>2 DEF DataInv, StartedUnderDecision
    <3> QED
      BY <2>1, <2>2, <3>1 DEF UnderDecision
  <2> QED
    BY <2>2 DEF StartedUnderDecision, UnderDecision
<1> QED
  BY <1>2, <1>3, <1>4, <1>5 DEF DataInv

LEMMA DisclosureObserved ==
  ASSUME DataInv, NEW x \in Execution, NEW observed \in Stamp, NEW inScope \in BOOLEAN,
         CreateDisclosureReceipt(x, observed, inScope)
  PROVE  DataInv'
<1> DEFINE status == IF InContract(x, observed, inScope) THEN "verified" ELSE "mismatch"
           run == [daExecution[x] EXCEPT !.observedAt = observed, !.status = status]
<1>1. daExecution[x] # NotStored /\ daExecution[x] \in ExecutionRecord
  BY DEF CreateDisclosureReceipt, DataInv, DataTables
<1>2. /\ run \in ExecutionRecord /\ run.contract = daExecution[x].contract
      /\ run.startedAt = daExecution[x].startedAt
      /\ run.observedAt = observed /\ run.status = status
  BY <1>1, Instants DEF ExecutionRecord
<1>3. run.status = "verified" => run.observedAt <= daContract[run.contract].expiresAt
  BY <1>2 DEF InContract
<1>4. daExecution' = [daExecution EXCEPT ![x] = run]
  BY <1>1 DEF CreateDisclosureReceipt, DataInv, DataTables
<1> HIDE DEF run
<1> QED
  BY <1>1, <1>2, <1>3, <1>4, ReceiptCreated DEF CreateDisclosureReceipt

LEMMA DisclosureMissing ==
  ASSUME DataInv, NEW x \in Execution, ObservationMissing(x)
  PROVE  DataInv'
<1> DEFINE run == [daExecution[x] EXCEPT !.status = "inconclusive"]
<1>1. daExecution[x] # NotStored /\ daExecution[x] \in ExecutionRecord
  BY DEF ObservationMissing, DataInv, DataTables
<1>2. /\ run \in ExecutionRecord /\ run.contract = daExecution[x].contract
      /\ run.startedAt = daExecution[x].startedAt /\ run.status = "inconclusive"
  BY <1>1 DEF ExecutionRecord
<1>3. daExecution' = [daExecution EXCEPT ![x] = run]
  BY DEF ObservationMissing
<1> HIDE DEF run
<1> QED
  BY <1>1, <1>2, <1>3, ReceiptCreated DEF ObservationMissing

LEMMA DayPassed ==
  ASSUME DataInv, DayPasses
  PROVE  DataInv'
<1>1. /\ daNow' = daNow + 1 /\ daNow \in Nat
      /\ UNCHANGED <<daEvidence, daPolicy, daDecision, daContract, daExecution, daSignalled>>
  BY DEF DayPasses, DataInv, DataTables
<1>2. DataTables'
  BY <1>1 DEF DataInv, DataTables
<1>3. NothingAhead'
  <2>1. \A n \in Int : /\ n <= daNow => n <= daNow'
                       /\ n <= daNow + Tolerance => n <= daNow' + Tolerance
    BY <1>1, Instants
  <2>2. /\ \A i \in EvidenceId : daEvidence[i] # NotStored => daEvidence[i].observedAt \in Int
        /\ \A d \in Decision : daDecision[d] # NotStored => daDecision[d].decidedAt \in Int
        /\ \A x \in Execution : daExecution[x] # NotStored => daExecution[x].startedAt \in Int
        /\ \A s \in Subject : daSignalled[s] \in Int
    BY ContentFields, DecisionFields, ExecutionFields DEF DataInv, DataTables
  <2> QED
    BY <1>1, <2>1, <2>2 DEF DataInv, NothingAhead
<1> QED
  BY <1>1, <1>2, <1>3 DEF DataInv, DecisionsCovered, ContractsInWindow, ExecutionsInWindow,
                          StartedUnderDecision, UnderDecision

LEMMA DataInvNext == DataInv /\ [DataNext]_daVars => DataInv'
<1> SUFFICES ASSUME DataInv, [DataNext]_daVars PROVE DataInv'
  OBVIOUS
<1>1. ASSUME NEW v \in DOMAIN Policies, RegisterDataFitnessPolicy(v)
      PROVE  DataInv'
  BY <1>1 DEF RegisterDataFitnessPolicy, DataInv, DataTables, NothingAhead, DecisionsCovered,
              ContractsInWindow, ExecutionsInWindow, StartedUnderDecision, UnderDecision
<1>2. ASSUME NEW c \in Contract, NEW d \in Decision, NEW issued \in Stamp,
             NEW expires \in Expiry, RegisterDisclosureContract(c, d, issued, expires)
      PROVE  DataInv'
  <2>1. expires \in Int
    BY DEF Expiry
  <2> QED
    BY <1>2, <2>1, ContractRegistered
<1>3. CASE UNCHANGED daVars
  BY <1>3 DEF daVars, DataInv, DataTables, NothingAhead, DecisionsCovered,
              ContractsInWindow, ExecutionsInWindow, StartedUnderDecision, UnderDecision
<1> QED
  BY <1>1, <1>2, <1>3, EvidenceImported, FitnessEvaluated, SignalIngested, ExecutionStarted,
     DisclosureObserved, DisclosureMissing, DayPassed DEF DataNext

LEMMA ProperDisclosure == DataInv => DisclosureUnderFitness
<1> SUFFICES ASSUME DataInv, NEW x \in Execution, daExecution[x] # NotStored
             PROVE  LET run == daExecution[x]
                        decision == daDecision[daContract[run.contract].decision]
                        maxAge == Policies[decision.policy].maxAge IN
                    /\ \A e \in decision.basis :
                         /\ e.claim # "unmet"
                         /\ e.observedAt <= run.startedAt + Tolerance
                         /\ run.startedAt < e.validUntil
                         /\ maxAge # NoLimit => run.startedAt - e.observedAt <= maxAge
                    /\ decision.decidedAt <= run.startedAt
                    /\ decision.invalidated => run.startedAt <= daSignalled[decision.subject]
                    /\ run.status = "verified" =>
                         \A e \in decision.basis : run.observedAt <= e.validUntil
  BY DEF DisclosureUnderFitness
<1> DEFINE run == daExecution[x]
           contract == daContract[run.contract]
           decision == daDecision[contract.decision]
           maxAge == Policies[decision.policy].maxAge
<1>1. /\ run \in ExecutionRecord /\ run.contract \in Contract
      /\ run.startedAt \in Nat /\ run.observedAt \in Nat
  BY ExecutionFields DEF DataInv, DataTables
<1>2. /\ contract # NotStored
      /\ run.startedAt < contract.expiresAt
      /\ run.status = "verified" => run.observedAt <= contract.expiresAt
  BY DEF DataInv, ExecutionsInWindow, InWindow
<1>3. contract.decision \in Decision /\ contract.expiresAt \in Int
  BY <1>1, <1>2, ContractFields DEF DataInv, DataTables
<1>4. /\ decision # NotStored /\ decision.status = "allowed"
      /\ contract.expiresAt <= decision.expiresAt
  BY <1>1, <1>2 DEF DataInv, ContractsInWindow, InDecision
<1>5. /\ decision.decidedAt \in Nat /\ decision.expiresAt \in Int
      /\ decision.policy \in DOMAIN Policies /\ decision.basis \subseteq Content
  BY <1>3, <1>4, DecisionFields DEF DataInv, DataTables
<1>6. /\ decision.decidedAt <= run.startedAt
      /\ decision.invalidated => run.startedAt <= daSignalled[decision.subject]
  BY DEF DataInv, StartedUnderDecision, UnderDecision
<1>7. ASSUME NEW e \in decision.basis
      PROVE  /\ e.claim # "unmet"
             /\ e.observedAt <= run.startedAt + Tolerance /\ run.startedAt < e.validUntil
             /\ maxAge # NoLimit => run.startedAt - e.observedAt <= maxAge
             /\ run.status = "verified" => run.observedAt <= e.validUntil
  <2>1. /\ e.claim # "unmet" /\ e.observedAt <= decision.decidedAt + Tolerance
        /\ decision.expiresAt <= e.validUntil
        /\ maxAge # NoLimit => decision.expiresAt <= e.observedAt + maxAge
    BY <1>3, <1>4 DEF DataInv, DecisionsCovered, Covered
  <2>2. e.observedAt \in Nat /\ e.validUntil \in Nat /\ maxAge \in Int
    BY <1>5, ContentFields, PolicyFields
  <2> HIDE DEF run, contract, decision, maxAge
  <2> QED
    BY <1>1, <1>2, <1>3, <1>4, <1>5, <1>6, <2>1, <2>2, Instants
<1> QED
  BY <1>6, <1>7

\* Whatever is imported, decided, contracted and signalled in whatever order, an
\* execution runs on evidence that met the policy and was current, young enough
\* and no more than Tolerance ahead when it started, under a decision that was
\* made before and that no signal had invalidated by then,
\* and a disclosure is verified only if it was observed while the evidence held.
THEOREM DisclosuresFit == DataSpec => []DisclosureUnderFitness
<1>1. DataInit => DataInv
  BY DataInvInit
<1>2. DataInv /\ [DataNext]_daVars => DataInv'
  BY DataInvNext
<1> QED
  BY <1>1, <1>2, ProperDisclosure, PTL DEF DataSpec

\* What expires does so no later than the last of the evidence.
LEMMA ExpiryBounds ==
  /\ Day \subseteq Expiry
  /\ \A e \in Content, n \in Nat : n <= e.validUntil => n \in Expiry
<1> DEFINE ends == {e.validUntil : e \in Content}
           S == {0, LastDay} \cup ends
<1>1. IsFiniteSet(S)
  <2>1. IsFiniteSet(ends)
    <3> DEFINE f == [e \in Content |-> e.validUntil]
    <3>1. f \in Surjection(Content, ends)
      BY DEF Surjection
    <3> HIDE DEF f, ends
    <3> QED
      BY <3>1, DataAssumption, FS_Surjection
  <2>2. IsFiniteSet({0, LastDay})
    <3>1. IsFiniteSet({0}) /\ {0, LastDay} = {0} \cup {LastDay}
      BY FS_Singleton
    <3> QED
      BY <3>1, FS_AddElement
  <2> QED
    BY <2>1, <2>2, FS_Union
<1>2. S \in SUBSET Nat /\ S # {} /\ LastDay \in S /\ \A e \in Content : e.validUntil \in S
  BY DataAssumption, ContentFields
<1>3. Expiry = 0..Max(S)
  BY DEF Expiry
<1> HIDE DEF S
<1>4. Max(S) \in Nat /\ \A i \in S : i <= Max(S)
  BY <1>1, <1>2, FiniteGreatest
<1> QED
  BY <1>2, <1>3, <1>4, DataAssumption, ContentFields DEF Day

\* A decision lasts no longer than some evidence, or is over at once.
LEMMA FitnessExpires ==
  ASSUME DataInv, daNow \in Day, NEW s \in Subject, NEW v \in DOMAIN Policies
  PROVE  FitnessExpiry(Policies[v], Usable(s)) \in Expiry
<1> DEFINE basis == Usable(s)
           p == Policies[v]
           ends == {e.validUntil : e \in basis}
                   \cup {e.observedAt + p.maxAge :
                           e \in IF p.maxAge = NoLimit THEN {} ELSE basis}
<1>1. CASE basis = {}
  BY <1>1, ExpiryBounds DEF FitnessExpiry
<1>2. CASE basis # {}
  <2>1. basis \subseteq Content
    <3>1. \A e \in basis : \E i \in EvidenceId : e = daEvidence[i] /\ e # NotStored
      BY DEF Usable
    <3> QED
      BY <3>1 DEF DataInv, DataTables
  <2>2. ends \in SUBSET Nat /\ ends # {}
    <3>1. ends # {}
      BY <1>2
    <3>2. \A e \in basis : e.validUntil \in Nat
      BY <2>1, ContentFields
    <3>3. ASSUME p.maxAge # NoLimit, NEW e \in basis PROVE e.observedAt + p.maxAge \in Nat
      <4>1. e.observedAt \in Nat /\ p.maxAge \in Nat
        BY <2>1, <3>3, ContentFields, PolicyFields
      <4> QED
        BY <4>1
    <3>4. \A n \in ends : n \in Nat
      BY <3>2, <3>3
    <3> HIDE DEF ends
    <3> QED
      BY <3>1, <3>4
  <2>3. PICK e \in basis : e.validUntil \in ends
    BY <1>2
  <2>4. FitnessExpiry(p, basis) = Min(ends)
    BY <1>2 DEF FitnessExpiry
  <2>5. Min(ends) \in Nat /\ Min(ends) <= e.validUntil
    <3> HIDE DEF ends
    <3> QED
      BY <2>2, <2>3, LeastInstant
  <2>6. e \in Content
    BY <2>1
  <2> HIDE DEF ends, basis
  <2> QED
    BY <2>4, <2>5, <2>6, ExpiryBounds DEF basis
<1> QED
  BY <1>1, <1>2

LEMMA DataTypedNext == DataInv /\ DataTypeOK /\ [DataNext]_daVars => DataTypeOK'
<1> SUFFICES ASSUME DataInv, DataTypeOK, [DataNext]_daVars PROVE DataTypeOK'
  OBVIOUS
<1>1. ASSUME NEW i \in EvidenceId, NEW e \in Content, RegisterExternalEvidence(i, e)
      PROVE  DataTypeOK'
  BY <1>1 DEF RegisterExternalEvidence, DataTypeOK
<1>2. ASSUME NEW v \in DOMAIN Policies, RegisterDataFitnessPolicy(v)
      PROVE  DataTypeOK'
  BY <1>2 DEF RegisterDataFitnessPolicy, DataTypeOK
<1>3. ASSUME NEW d \in Decision, NEW s \in Subject, EvaluateDataFitness(d, s)
      PROVE  DataTypeOK'
  <2> DEFINE expires == FitnessExpiry(Policies[daPolicy], Usable(s))
             status == FitnessStatus(Policies[daPolicy], Usable(s))
             row == [status |-> status, subject |-> s, decidedAt |-> daNow,
                     expiresAt |-> expires, policy |-> daPolicy, basis |-> Usable(s),
                     invalidated |-> FALSE]
  <2>1. /\ daPolicy \in DOMAIN Policies /\ daDecision' = [daDecision EXCEPT ![d] = row]
        /\ UNCHANGED <<daNow, daEvidence, daPolicy, daContract, daExecution, daSignalled>>
    BY <1>3 DEF EvaluateDataFitness, DataTypeOK
  <2>2. expires \in Expiry
    BY <2>1, FitnessExpires DEF DataTypeOK
  <2>3. row \in DecisionRecord
    BY <2>1, FitnessDecided DEF DataInv
  <2>4. status \in {"allowed", "denied", "review_required"} /\ Usable(s) \subseteq Content
    <3>1. row.status \in {"allowed", "denied", "review_required"} /\ row.basis \subseteq Content
      BY <2>3, DecisionFields
    <3> QED
      BY <3>1
  <2> HIDE DEF expires, status
  <2>5. row \in DecisionRow
    BY <2>1, <2>2, <2>4 DEF DecisionRow, DataTypeOK
  <2> HIDE DEF row
  <2>6. \A b \in Decision : daDecision'[b] \in DecisionRow \cup {NotStored}
    <3>1. daDecision \in [Decision -> DecisionRecord \cup {NotStored}]
      BY DEF DataInv, DataTables
    <3> QED
      BY <2>1, <2>5, <3>1 DEF DataTypeOK
  <2> QED
    BY <2>1, <2>6 DEF DataTypeOK
<1>4. ASSUME NEW c \in Contract, NEW d \in Decision, NEW issued \in Stamp,
             NEW expires \in Expiry, RegisterDisclosureContract(c, d, issued, expires)
      PROVE  DataTypeOK'
  <2> DEFINE row == [status |-> "active", decision |-> d, issuedAt |-> issued,
                     expiresAt |-> expires]
  <2>1. /\ daContract' = [daContract EXCEPT ![c] = row]
        /\ UNCHANGED <<daNow, daEvidence, daPolicy, daDecision, daExecution, daSignalled>>
    BY <1>4 DEF RegisterDisclosureContract
  <2>2. row \in ContractRow
    BY DEF ContractRow
  <2>3. daContract \in [Contract -> ContractRecord \cup {NotStored}]
    BY DEF DataInv, DataTables
  <2> HIDE DEF row
  <2> QED
    BY <2>1, <2>2, <2>3 DEF DataTypeOK
<1>5. ASSUME NEW s \in Subject, IngestAssuranceSignal(s)
      PROVE  DataTypeOK'
  <2>1. /\ daSignalled' = [daSignalled EXCEPT ![s] = daNow]
        /\ UNCHANGED <<daNow, daEvidence, daPolicy, daContract, daExecution>>
        /\ \A d \in Decision : daDecision'[d] =
             IF daDecision[d] # NotStored /\ daDecision[d].status = "allowed"
                /\ daDecision[d].subject = s
             THEN [daDecision[d] EXCEPT !.invalidated = TRUE] ELSE daDecision[d]
    BY <1>5 DEF IngestAssuranceSignal
  <2>2. ASSUME NEW row \in DecisionRow
        PROVE  [row EXCEPT !.invalidated = TRUE] \in DecisionRow
    BY DEF DecisionRow
  <2>3. \A d \in Decision : daDecision'[d] \in DecisionRow \cup {NotStored}
    BY <2>1, <2>2 DEF DataTypeOK
  <2> QED
    BY <2>1, <2>3 DEF DataTypeOK
<1>6. ASSUME NEW x \in Execution, NEW c \in Contract, StartExecution(x, c)
      PROVE  DataTypeOK'
  <2> DEFINE run == [status |-> "started", contract |-> c, startedAt |-> daNow,
                     observedAt |-> daNow]
  <2>1. /\ daExecution' = [daExecution EXCEPT ![x] = run]
        /\ UNCHANGED <<daNow, daEvidence, daPolicy, daDecision, daContract, daSignalled>>
    BY <1>6 DEF StartExecution
  <2>2. run \in ExecutionRow
    BY Instants DEF ExecutionRow, DataTypeOK
  <2>3. daExecution \in [Execution -> ExecutionRecord \cup {NotStored}]
    BY DEF DataInv, DataTables
  <2> HIDE DEF run
  <2> QED
    BY <2>1, <2>2, <2>3 DEF DataTypeOK
<1>7. ASSUME NEW x \in Execution, NEW run \in ExecutionRow,
             daExecution' = [daExecution EXCEPT ![x] = run],
             UNCHANGED <<daNow, daEvidence, daPolicy, daDecision, daContract, daSignalled>>
      PROVE  DataTypeOK'
  <2>1. daExecution \in [Execution -> ExecutionRecord \cup {NotStored}]
    BY DEF DataInv, DataTables
  <2> QED
    BY <1>7, <2>1 DEF DataTypeOK
<1>8. ASSUME NEW x \in Execution, NEW observed \in Stamp, NEW inScope \in BOOLEAN,
             CreateDisclosureReceipt(x, observed, inScope)
      PROVE  DataTypeOK'
  <2> DEFINE status == IF InContract(x, observed, inScope) THEN "verified" ELSE "mismatch"
             run == [daExecution[x] EXCEPT !.observedAt = observed, !.status = status]
  <2>1. daExecution' = [daExecution EXCEPT ![x] = run]
    <3>1. daExecution \in [Execution -> ExecutionRecord \cup {NotStored}]
      BY DEF DataInv, DataTables
    <3> QED
      BY <1>8, <3>1 DEF CreateDisclosureReceipt
  <2>2. daExecution[x] \in ExecutionRow
    BY <1>8 DEF CreateDisclosureReceipt, DataTypeOK
  <2>3. run \in ExecutionRow
    BY <2>2 DEF ExecutionRow
  <2> HIDE DEF run
  <2> QED
    BY <1>7, <1>8, <2>1, <2>3 DEF CreateDisclosureReceipt
<1>9. ASSUME NEW x \in Execution, ObservationMissing(x)
      PROVE  DataTypeOK'
  <2> DEFINE run == [daExecution[x] EXCEPT !.status = "inconclusive"]
  <2>1. daExecution' = [daExecution EXCEPT ![x] = run]
    BY <1>9 DEF ObservationMissing
  <2>2. daExecution[x] \in ExecutionRow
    BY <1>9 DEF ObservationMissing, DataTypeOK
  <2>3. run \in ExecutionRow
    BY <2>2 DEF ExecutionRow
  <2> HIDE DEF run
  <2> QED
    BY <1>7, <1>9, <2>1, <2>3 DEF ObservationMissing
<1>10. CASE DayPasses
  <2>1. daNow' \in Day
    BY <1>10, DataAssumption DEF DayPasses, DataTypeOK, Day
  <2> QED
    BY <1>10, <2>1 DEF DayPasses, DataTypeOK
<1>11. CASE UNCHANGED daVars
  BY <1>11 DEF daVars, DataTypeOK
<1> QED
  BY <1>1, <1>2, <1>3, <1>4, <1>5, <1>6, <1>8, <1>9, <1>10, <1>11 DEF DataNext

\* Rows of the tables name instants up to the Tolerance of a foreign clock past
\* the last, and end no later than the last of the evidence.
THEOREM DataTyped == DataSpec => []DataTypeOK
<1>1. DataInit => DataInv /\ DataTypeOK
  BY DataInvInit, DataAssumption DEF DataInit, DataTypeOK, Day
<1>2. DataInv /\ DataTypeOK /\ [DataNext]_daVars => DataInv' /\ DataTypeOK'
  BY DataInvNext, DataTypedNext
<1> QED
  BY <1>1, <1>2, PTL DEF DataSpec

-----------------------------------------------------------------------------
(* The billing book.                                                        *)

BillingRun == [batch : Batch, status : {"accepted", "reused", "quarantined", "resolved"}]
BillingBook == [runs : Seq(BillingRun), history : SUBSET SourceRow,
                active : SUBSET SourceRow, links : SUBSET BillLink]
Attempts(att) ==
  att = [a \in BillAttempt |-> [status |-> att[a].status, cost |-> att[a].cost]]

\* What a later ledger and book keep of earlier ones.
AttemptsStand(att, next) ==
  \A a \in BillAttempt :
    /\ att[a].status # "none" => next[a].status # "none"
    /\ att[a].status = "unreconciled" => next[a].status # "reserved"
    /\ att[a].status = "settled" => next[a] = att[a]

BookStands(book, next) ==
  /\ book.history \subseteq next.history
  /\ \A i \in DOMAIN book.runs :
       /\ i \in DOMAIN next.runs /\ next.runs[i].batch = book.runs[i].batch
       /\ book.runs[i].status \in {next.runs[i].status, "quarantined"}

\* A job keeps what it was computed from.
BillingInv ==
  /\ Attempts(fbAttempt) /\ fbBook \in BillingBook
  /\ fbJob # Resting =>
       /\ Attempts(fbJob.attempt) /\ fbJob.book \in BillingBook
       /\ AttemptsStand(fbJob.base[1], fbJob.attempt)
       /\ BookStands(fbJob.base[2], fbJob.book)

LEMMA BookFields ==
  ASSUME NEW book \in BillingBook
  PROVE  /\ book.runs \in Seq(BillingRun) /\ book.history \subseteq SourceRow
         /\ book.active \subseteq SourceRow /\ book.links \subseteq BillLink
BY DEF BillingBook

LEMMA BooksStand ==
  ASSUME NEW book
  PROVE  BookStands(book, book)
BY DEF BookStands

LEMMA AttemptStands ==
  ASSUME NEW att
  PROVE  AttemptsStand(att, att)
BY DEF AttemptsStand

\* An import appends its run, resolves quarantined ones and adds to the history.
LEMMA ImportStands ==
  ASSUME NEW book \in BillingBook, NEW b \in Batch, NEW resolves \in SUBSET Unresolved(book)
  PROVE  Imported(book, b, resolves) \in BillingBook
         /\ BookStands(book, Imported(book, b, resolves))
<1> DEFINE verdict == Verdict(book, b)
           runs == [i \in DOMAIN book.runs |->
                      IF i \in resolves THEN [book.runs[i] EXCEPT !.status = "resolved"]
                                        ELSE book.runs[i]]
           run == [batch |-> b, status |-> verdict]
           all == Append(runs, run)
<1>1. verdict \in {"accepted", "reused", "quarantined"}
  BY DEF Verdict
<1>2. /\ book.runs \in Seq(BillingRun) /\ book.history \subseteq SourceRow
      /\ book.active \subseteq SourceRow /\ book.links \subseteq BillLink
  BY BookFields
<1>3. /\ runs \in Seq(BillingRun) /\ Len(runs) = Len(book.runs)
      /\ \A i \in 1..Len(book.runs) :
           /\ runs[i].batch = book.runs[i].batch
           /\ \/ runs[i].status = book.runs[i].status
              \/ i \in resolves /\ runs[i].status = "resolved"
  <2>1. DOMAIN book.runs = 1..Len(book.runs) /\ Len(book.runs) \in Nat
    BY <1>2
  <2>2. \A i \in 1..Len(book.runs) : book.runs[i] \in BillingRun
    BY <1>2
  <2>3. ASSUME NEW r \in BillingRun
        PROVE  LET resolved == [r EXCEPT !.status = "resolved"] IN
               /\ resolved \in BillingRun /\ resolved.batch = r.batch
               /\ resolved.status = "resolved"
    BY DEF BillingRun
  <2>4. runs \in [1..Len(book.runs) -> BillingRun]
    BY <2>1, <2>2, <2>3
  <2>5. runs \in Seq(BillingRun) /\ Len(runs) = Len(book.runs)
    <3> HIDE DEF runs
    <3> QED
      BY <2>1, <2>4
  <2>6. \A i \in 1..Len(book.runs) :
          runs[i] = IF i \in resolves THEN [book.runs[i] EXCEPT !.status = "resolved"]
                                      ELSE book.runs[i]
    BY <2>1
  <2>7. ASSUME NEW i \in 1..Len(book.runs)
        PROVE  /\ runs[i].batch = book.runs[i].batch
               /\ \/ runs[i].status = book.runs[i].status
                  \/ i \in resolves /\ runs[i].status = "resolved"
    <3> HIDE DEF runs
    <3>1. CASE i \in resolves
      BY <2>2, <2>3, <2>6, <3>1
    <3>2. CASE i \notin resolves
      BY <2>6, <3>2
    <3> QED
      BY <3>1, <3>2
  <2> HIDE DEF runs
  <2> QED
    BY <2>5, <2>7
<1>4. run \in BillingRun
  BY <1>1 DEF BillingRun
<1>5. /\ all \in Seq(BillingRun) /\ DOMAIN book.runs \subseteq DOMAIN all
      /\ \A i \in DOMAIN book.runs : all[i] = runs[i]
  <2>1. DOMAIN book.runs = 1..Len(book.runs) /\ Len(book.runs) \in Nat
    BY <1>2
  <2> HIDE DEF runs, run
  <2> QED
    BY <1>3, <1>4, <2>1
<1>6. \A i \in DOMAIN book.runs :
        /\ all[i].batch = book.runs[i].batch
        /\ book.runs[i].status \in {all[i].status, "quarantined"}
  <2>1. \A i \in resolves : book.runs[i].status = "quarantined"
    BY DEF Unresolved, RunsOf
  <2>2. DOMAIN book.runs = 1..Len(book.runs)
    BY <1>2
  <2> HIDE DEF runs, all
  <2> QED
    BY <1>3, <1>5, <2>1, <2>2
<1> HIDE DEF all, verdict
<1>7. b.rows \subseteq SourceRow /\ ActiveAfter(book, b) \subseteq SourceRow
  <2>1. b.rows \subseteq SourceRow
    BY DEF SourceRow
  <2> QED
    BY <1>2, <2>1 DEF ActiveAfter
<1>8. Imported(book, b, resolves) =
        IF verdict = "accepted"
        THEN [book EXCEPT !.runs = all, !.history = @ \cup b.rows,
                          !.active = ActiveAfter(book, b)]
        ELSE [book EXCEPT !.runs = all]
  BY DEF Imported, all, verdict
<1>9. LET next == Imported(book, b, resolves) IN
      /\ next \in BillingBook /\ next.runs = all /\ book.history \subseteq next.history
  BY <1>2, <1>5, <1>7, <1>8 DEF BillingBook
<1> HIDE DEF runs, run
<1> QED
  BY <1>5, <1>6, <1>9 DEF BookStands

\* One attempt goes on from where it is.
LEMMA AttemptGoesOn ==
  ASSUME NEW att, Attempts(att), NEW a \in BillAttempt, NEW next, NEW status, NEW cost,
         next = [att EXCEPT ![a] = [status |-> status, cost |-> cost]],
         status # "none", att[a].status # "settled",
         att[a].status = "unreconciled" => status # "reserved"
  PROVE  Attempts(next) /\ AttemptsStand(att, next)
<1>1. next = [b \in BillAttempt |-> IF b = a THEN [status |-> status, cost |-> cost] ELSE att[b]]
  BY DEF Attempts
<1>2. \A b \in BillAttempt : next[b] = [status |-> next[b].status, cost |-> next[b].cost]
  <2>1. \A b \in BillAttempt : att[b] = [status |-> att[b].status, cost |-> att[b].cost]
    BY DEF Attempts
  <2> QED
    BY <1>1, <2>1
<1>3. next = [b \in BillAttempt |-> [status |-> next[b].status, cost |-> next[b].cost]]
  BY <1>1, <1>2
<1> QED
  BY <1>1, <1>3 DEF Attempts, AttemptsStand

LEMMA AttemptSettles ==
  ASSUME NEW att, Attempts(att), NEW a \in BillAttempt, NEW cost,
         att[a].status \in {"reserved", "unreconciled"}
  PROVE  Attempts(Settled(att, a, cost)) /\ AttemptsStand(att, Settled(att, a, cost))
BY AttemptGoesOn DEF Settled

LEMMA CasesStand ==
  ASSUME NEW book, NEW att, Rendered(book, att)
  PROVE  \A id \in DOMAIN fbCases : id \in DOMAIN fbCases'
BY DEF Rendered, SyncedCases

\* What a step keeps.
BillingStands ==
  /\ BillingInv'
  /\ AttemptsStand(fbAttempt, fbAttempt') /\ BookStands(fbBook, fbBook')
  /\ \A id \in DOMAIN fbCases : id \in DOMAIN fbCases'

LEMMA JobStarts ==
  ASSUME BillingInv, NEW att, NEW book, Start(att, book), Attempts(att),
         book \in BillingBook, AttemptsStand(fbAttempt, att), BookStands(fbBook, book)
  PROVE  BillingStands
<1>1. /\ fbJob'.base[1] = fbAttempt /\ fbJob'.base[2] = fbBook
      /\ fbJob'.attempt = att /\ fbJob'.book = book
      /\ UNCHANGED <<fbAttempt, fbBook, fbCases>>
  BY DEF Start
<1> QED
  BY <1>1, BooksStand, AttemptStands DEF BillingInv, BillingStands, Attempts

LEMMA RecordsRendered ==
  ASSUME BillingInv, NEW att, NEW book, Rendered(book, att), Attempts(att),
         book \in BillingBook, AttemptsStand(fbAttempt, att), BookStands(fbBook, book),
         fbJob' = fbJob \/ fbJob' = Resting
  PROVE  BillingStands
<1>1. fbBook' = book /\ fbAttempt' = att
  BY DEF Rendered
<1> QED
  BY <1>1, CasesStand DEF BillingInv, BillingStands

\* Links do not concern what stands.
LEMMA LinksChange ==
  ASSUME BillingInv, NEW links \in SUBSET BillLink, Relinked(links)
  PROVE  BillingStands
<1> DEFINE book == [fbBook EXCEPT !.links = links]
<1>1. book \in BillingBook /\ book.history = fbBook.history /\ book.runs = fbBook.runs
  BY DEF BillingInv, BillingBook
<1>2. BookStands(fbBook, book)
  <2> HIDE DEF book
  <2> QED
    BY <1>1 DEF BookStands
<1> QED
  BY <1>1, <1>2, AttemptStands, RecordsRendered DEF Relinked, BillingInv

LEMMA BillingStep ==
  ASSUME BillingInv, BillingNext
  PROVE  BillingStands
<1>1. ASSUME NEW b \in Batch, NEW resolves \in SUBSET Unresolved(fbBook),
             ImportBilling(b, resolves)
      PROVE  BillingStands
  BY <1>1, ImportStands, AttemptStands, JobStarts DEF ImportBilling, BillingInv
<1>2. ASSUME NEW a \in BillAttempt, SettleFromBilling(a)
      PROVE  BillingStands
  BY <1>2, AttemptSettles, BooksStand, JobStarts DEF SettleFromBilling, Billable, BillingInv
<1>3. ASSUME NEW a \in BillAttempt, ReserveByHand(a)
      PROVE  BillingStands
  <2> DEFINE next == [fbAttempt EXCEPT ![a].status = "reserved"]
             row == [status |-> "reserved", cost |-> fbAttempt[a].cost]
  <2>1. next = [fbAttempt EXCEPT ![a] = row]
    <3>1. fbAttempt[a] = [status |-> fbAttempt[a].status, cost |-> fbAttempt[a].cost]
      BY DEF BillingInv, Attempts
    <3>2. [fbAttempt[a] EXCEPT !.status = "reserved"] = row
      BY <3>1
    <3> QED
      BY <3>2
  <2>2. Attempts(next) /\ AttemptsStand(fbAttempt, next)
    <3>1. fbAttempt[a].status = "none"
      BY <1>3 DEF ReserveByHand
    <3> QED
      BY <2>1, <3>1, AttemptGoesOn DEF BillingInv
  <2>3. Rendered(fbBook, next) /\ fbJob' = fbJob
    BY <1>3 DEF ReserveByHand, Recorded
  <2> HIDE DEF next
  <2> QED
    BY <2>2, <2>3, BooksStand, RecordsRendered DEF BillingInv
<1>4. ASSUME NEW a \in BillAttempt, SettleByHand(a)
      PROVE  BillingStands
  <2>1. CASE /\ fbAttempt[a].status \in {"reserved", "unreconciled"}
             /\ \E c \in HandCost : Recorded(Settled(fbAttempt, a, c))
    BY <2>1, AttemptSettles, BooksStand, RecordsRendered DEF Recorded, BillingInv
  <2>2. CASE /\ fbAttempt[a].status = "reserved"
             /\ Recorded([fbAttempt EXCEPT ![a].status = "unreconciled"])
    <3> DEFINE next == [fbAttempt EXCEPT ![a].status = "unreconciled"]
               row == [status |-> "unreconciled", cost |-> fbAttempt[a].cost]
    <3>1. next = [fbAttempt EXCEPT ![a] = row]
      <4>1. fbAttempt[a] = [status |-> fbAttempt[a].status, cost |-> fbAttempt[a].cost]
        BY DEF BillingInv, Attempts
      <4>2. [fbAttempt[a] EXCEPT !.status = "unreconciled"] = row
        BY <4>1
      <4> QED
        BY <4>2
    <3>2. Attempts(next) /\ AttemptsStand(fbAttempt, next)
      BY <2>2, <3>1, AttemptGoesOn DEF BillingInv
    <3>3. Rendered(fbBook, next) /\ fbJob' = fbJob
      BY <2>2 DEF Recorded
    <3> HIDE DEF next
    <3> QED
      BY <3>2, <3>3, BooksStand, RecordsRendered DEF BillingInv
  <2> QED
    BY <1>4, <2>1, <2>2 DEF SettleByHand
<1>5. CASE CommitJob
  BY <1>5, RecordsRendered DEF CommitJob, OnItsBase, BillingInv
<1>6. CASE DropJob
  BY <1>6, BooksStand, AttemptStands DEF DropJob, BillingInv, BillingStands
<1>7. ASSUME NEW l \in BillLink, LinkBilling(l)
      PROVE  BillingStands
  BY <1>7, LinksChange, BookFields DEF LinkBilling, BillingInv
<1>8. ASSUME NEW l \in fbBook.links, UnlinkBilling(l)
      PROVE  BillingStands
  BY <1>8, LinksChange, BookFields DEF UnlinkBilling, BillingInv
<1>9. ASSUME NEW id \in DOMAIN fbCases, CloseCase(id)
      PROVE  BillingStands
  BY <1>9, BooksStand, AttemptStands DEF CloseCase, BillingInv, BillingStands
<1> QED
  BY <1>1, <1>2, <1>3, <1>4, <1>5, <1>6, <1>7, <1>8, <1>9 DEF BillingNext

\* An import or a settlement replaces the records only where they are what it
\* was computed from, so whatever happens meanwhile nothing that was reserved,
\* settled, imported or resolved is forgotten, changed or settled again.
THEOREM RecordsAreKept == BillingSpec => RecordsStand
<1>1. BillingInit => BillingInv
  <2> SUFFICES ASSUME BillingInit PROVE BillingInv
    OBVIOUS
  <2>1. fbBook \in BillingBook
    BY DEF BillingInit, BillingBook
  <2>2. Attempts(fbAttempt)
    BY DEF BillingInit, Attempts
  <2> QED
    BY <2>1, <2>2 DEF BillingInit, BillingInv
<1>2. BillingInv /\ [BillingNext]_fbVars => BillingStands
  <2>1. CASE UNCHANGED fbVars
    BY <2>1, BooksStand, AttemptStands DEF fbVars, BillingInv, BillingStands, Attempts
  <2> QED
    BY <2>1, BillingStep
<1>3. BillingStands => BillingInv'
  BY DEF BillingStands
<1> DEFINE Stand ==
      /\ \A a \in BillAttempt :
           /\ fbAttempt[a].status # "none" => fbAttempt'[a].status # "none"
           /\ fbAttempt[a].status = "unreconciled" => fbAttempt'[a].status # "reserved"
           /\ fbAttempt[a].status = "settled" => fbAttempt'[a] = fbAttempt[a]
      /\ fbBook.history \subseteq fbBook'.history
      /\ \A i \in DOMAIN fbBook.runs :
           /\ i \in DOMAIN fbBook'.runs /\ fbBook'.runs[i].batch = fbBook.runs[i].batch
           /\ fbBook.runs[i].status \in {fbBook'.runs[i].status, "quarantined"}
      /\ \A id \in DOMAIN fbCases : id \in DOMAIN fbCases'
<1>4. BillingStands => Stand
  BY DEF BillingStands, AttemptsStand, BookStands
<1>5. RecordsStand <=> [][Stand]_fbVars
  BY DEF RecordsStand
<1> HIDE DEF Stand
<1> QED
  BY <1>1, <1>2, <1>3, <1>4, <1>5, PTL DEF BillingSpec

-----------------------------------------------------------------------------
(* What billing explains of the settled costs.                              *)

\* What is linked to a record: of its sign, and no more than it bills.
LinkedTo(links, row) == {l \in links : l.ref = RefOf(row)}
Allocated(links, row) ==
  /\ \A l \in LinkedTo(links, row) : (l.amount > 0) = (row.amount > 0)
  /\ row.amount > 0 => Sum(LinkedTo(links, row)) <= row.amount

\* A source has one active revision, and links are to revisions in the history.
BookHeld(book) ==
  /\ book.active \subseteq book.history
  /\ IsFiniteSet(book.active) /\ IsFiniteSet(book.links)
  /\ \A row, other \in book.active : row.source = other.source => row = other
  /\ \A l \in book.links : l.ref \in Refs(book.history)
  /\ \A row \in book.active : Allocated(book.links, row)

\* A closed case was reviewed as it is.
CaseShape(case) ==
  /\ case \in [print : {case.print}, active : BOOLEAN, status : {"open", "closed"},
               reviewed : {case.reviewed}]
  /\ Cardinality(case.reviewed) <= 1
  /\ case.status = "closed" => case.reviewed = {case.print}

\* The active cases are those of the findings.
CasesOf(cases, findings) ==
  /\ cases = [id \in DOMAIN cases |-> cases[id]]
  /\ \A id \in DOMAIN cases : CaseShape(cases[id])
  /\ \A f \in findings : f[1] \in DOMAIN cases /\ cases[f[1]].active
  /\ \A id \in DOMAIN cases : cases[id].active => <<id, cases[id].print>> \in findings

BilledInv ==
  /\ BillingInv
  /\ AttemptsTyped(fbAttempt) /\ BookHeld(fbBook)
  /\ fbJob # Resting => AttemptsTyped(fbJob.attempt) /\ BookHeld(fbJob.book)
  /\ CasesOf(fbCases, Findings(fbBook, fbAttempt))

LEMMA LinkFields ==
  ASSUME NEW l \in BillLink
  PROVE  /\ l.amount \in Int /\ l.amount # 0
         /\ l.ref \in SourceRef /\ l.attempt \in BillAttempt
BY BillingAssumption DEF BillLink

LEMMA RowFields ==
  ASSUME NEW row \in SourceRow
  PROVE  row.amount \in Int
BY BillingAssumption DEF SourceRow

\* The sum of some links, over all.
LEMMA PartialSum ==
  ASSUME NEW L, IsFiniteSet(L), NEW S \in SUBSET L
  PROVE  Sum(S) = SumFunctionOnSet([l \in L |-> l.amount], S)
<1> DEFINE f == [l \in S |-> l.amount]
           g == [l \in L |-> l.amount]
<1>1. IsFiniteSet(S) /\ \A l \in S : f[l] = g[l]
  BY FS_Subset
<1> HIDE DEF f, g
<1>2. SumFunctionOnSet(f, S) = SumFunctionOnSet(g, S)
  BY <1>1, SumSame
<1> QED
  BY <1>2 DEF Sum, f, g

LEMMA LinkSums ==
  ASSUME NEW L \in SUBSET BillLink, IsFiniteSet(L)
  PROVE  /\ Sum(L) \in Int
         /\ \A S \in SUBSET L : (\A l \in L : l.amount > 0) => Sum(S) <= Sum(L)
         /\ \A l \in BillLink \ L : Sum(L \cup {l}) = Sum(L) + l.amount
<1>1. Sum(L) \in Int
  <2> DEFINE f == [l \in L |-> l.amount]
  <2>1. \A l \in L : f[l] \in Int
    BY LinkFields
  <2> HIDE DEF f
  <2>2. SumFunctionOnSet(f, L) \in Int
    BY <2>1, SumInt
  <2> QED
    BY <2>2 DEF Sum, f
<1>2. ASSUME NEW S \in SUBSET L, \A l \in L : l.amount > 0
      PROVE  Sum(S) <= Sum(L)
  <2> DEFINE f == [l \in L |-> l.amount]
  <2>1. \A l \in L : f[l] \in Nat
    BY <1>2, LinkFields
  <2>2. Sum(S) = SumFunctionOnSet(f, S) /\ Sum(L) = SumFunctionOnSet(f, L)
    BY PartialSum
  <2> HIDE DEF f
  <2> QED
    BY <2>1, <2>2, SumPart
<1>3. ASSUME NEW l \in BillLink \ L
      PROVE  Sum(L \cup {l}) = Sum(L) + l.amount
  <2> DEFINE all == L \cup {l}
             f == [k \in all |-> k.amount]
  <2>1. /\ IsFiniteSet(all) /\ L \in SUBSET all /\ all \in SUBSET all
        /\ all \ {l} = L /\ l \in all
    BY FS_AddElement
  <2>2. (\A k \in all : f[k] \in Int) /\ f[l] = l.amount
    BY LinkFields
  <2> HIDE DEF all
  <2>3. Sum(all) = SumFunctionOnSet(f, all) /\ Sum(L) = SumFunctionOnSet(f, L)
    BY <2>1, PartialSum
  <2> HIDE DEF f
  <2>4. SumFunctionOnSet(f, all) = f[l] + SumFunctionOnSet(f, all \ {l})
    BY <2>1, <2>2, SumWithout
  <2>5. Sum(all) = l.amount + Sum(L)
    BY <2>1, <2>2, <2>3, <2>4
  <2>6. l.amount \in Int
    BY LinkFields
  <2>7. Sum(all) = Sum(L) + l.amount
    BY <1>1, <2>5, <2>6
  <2> QED
    BY <2>7 DEF all
<1> QED
  BY <1>1, <1>2, <1>3

\* An import lists a source once, in the revision it had or a new one that
\* nothing is linked to.
LEMMA HeldByImport ==
  ASSUME NEW book \in BillingBook, BookHeld(book), NEW b \in Batch,
         NEW resolves \in SUBSET Unresolved(book), Importable(book, b, resolves)
  PROVE  BookHeld(Imported(book, b, resolves))
<1> DEFINE next == Imported(book, b, resolves)
           Rows == ActiveAfter(book, b)
<1>1. /\ book.history \subseteq SourceRow /\ book.active \subseteq SourceRow
      /\ book.links \subseteq BillLink
  BY BookFields
<1>2. /\ next.links = book.links
      /\ \/ next.history = book.history /\ next.active = book.active
         \/ /\ Verdict(book, b) = "accepted"
            /\ next.history = book.history \cup b.rows /\ next.active = Rows
  BY DEF Imported, BillingBook
<1> SUFFICES BookHeld(next)
  OBVIOUS
<1>3. CASE next.history = book.history /\ next.active = book.active
  <2> HIDE DEF next
  <2> QED
    BY <1>2, <1>3 DEF BookHeld
<1>4. CASE /\ Verdict(book, b) = "accepted"
           /\ next.history = book.history \cup b.rows /\ next.active = Rows
  <2>1. \A row \in b.rows : row \in SourceRow /\ RevisionFits(book, row)
    BY <1>4 DEF Importable, SourceRow
  <2>2. /\ IsFiniteSet(b.rows)
        /\ \A row, other \in b.rows : row.source = other.source => row = other
    BY BillingAssumption
  <2>3. Rows \subseteq {row \in book.active : row.source \notin Sources(b.rows)} \cup b.rows
    BY DEF ActiveAfter
  <2> HIDE DEF Rows, next
  <2>4. next.active \subseteq next.history
    BY <1>4, <2>3 DEF BookHeld
  <2>5. IsFiniteSet(next.active) /\ IsFiniteSet(next.links)
    <3>1. IsFiniteSet(book.active \cup b.rows)
      BY <2>2, FS_Union DEF BookHeld
    <3>2. Rows \subseteq book.active \cup b.rows
      BY <2>3
    <3>3. IsFiniteSet(Rows)
      BY <3>1, <3>2, FS_Subset
    <3> QED
      BY <1>2, <1>4, <3>3 DEF BookHeld
  <2>6. \A row, other \in next.active : row.source = other.source => row = other
    <3> SUFFICES ASSUME NEW row \in Rows, NEW other \in Rows, row.source = other.source
                 PROVE  row = other
      BY <1>4
    <3>1. \A r \in b.rows : r.source \in Sources(b.rows)
      BY DEF Sources
    <3> QED
      BY <2>2, <2>3, <3>1 DEF BookHeld
  <2>7. \A l \in next.links : l.ref \in Refs(next.history)
    BY <1>2, <1>4 DEF BookHeld, Refs
  <2>8. ASSUME NEW row \in Rows
        PROVE  Allocated(book.links, row)
    <3>1. CASE row \in book.active
      BY <3>1 DEF BookHeld
    <3>2. CASE row \notin book.active
      <4>1. row \in b.rows /\ RevisionFits(book, row)
        BY <2>1, <2>3, <3>2
      <4>2. RefOf(row) \notin Refs(book.history)
        BY <3>2, <4>1 DEF RevisionFits
      <4>3. LinkedTo(book.links, row) = {}
        BY <4>2 DEF BookHeld, LinkedTo
      <4>4. Sum({}) = 0
        BY FS_EmptySet, SumFirst DEF Sum
      <4>5. row.amount \in Int
        BY <2>1, <4>1, RowFields
      <4> QED
        BY <4>3, <4>4, <4>5 DEF Allocated
    <3> QED
      BY <3>1, <3>2
  <2> QED
    BY <1>2, <1>4, <2>4, <2>5, <2>6, <2>7, <2>8 DEF BookHeld
<1> QED
  BY <1>2, <1>3, <1>4

LEMMA LinksHeld ==
  ASSUME NEW book \in BillingBook, BookHeld(book), NEW links, IsFiniteSet(links),
         \A l \in links : l.ref \in Refs(book.history),
         \A row \in book.active : Allocated(links, row)
  PROVE  BookHeld([book EXCEPT !.links = links])
<1>1. LET next == [book EXCEPT !.links = links] IN
      next.active = book.active /\ next.history = book.history /\ next.links = links
  BY DEF BillingBook
<1> QED
  BY <1>1 DEF BookHeld

LEMMA HeldByLink ==
  ASSUME NEW book \in BillingBook, BookHeld(book), NEW att, NEW l \in BillLink,
         LinkFits(book, att, l)
  PROVE  BookHeld([book EXCEPT !.links = book.links \cup {l}])
<1> DEFINE links == book.links \cup {l}
           others == {k \in book.links : k.ref = l.ref}
<1>1. PICK row \in book.active :
        /\ RefOf(row) = l.ref
        /\ (l.amount > 0) = (row.amount > 0)
        /\ Size(Sum(others)) + Size(l.amount) <= Size(row.amount)
  BY DEF LinkFits
<1>2. l \notin others
  BY DEF LinkFits
<1>3. others = LinkedTo(book.links, row)
  BY <1>1 DEF LinkedTo
<1>4. /\ book.links \subseteq BillLink /\ IsFiniteSet(book.links)
      /\ others \in SUBSET BillLink /\ IsFiniteSet(others)
      /\ row \in SourceRow /\ row \in book.history
  <2>1. book.links \subseteq BillLink /\ IsFiniteSet(book.links)
    BY BookFields DEF BookHeld
  <2>2. others \subseteq book.links
    OBVIOUS
  <2>3. row \in SourceRow /\ row \in book.history
    BY BookFields DEF BookHeld
  <2> QED
    BY <2>1, <2>2, <2>3, FS_Subset
<1>5. IsFiniteSet(links) /\ \A k \in links : k.ref \in Refs(book.history)
  BY <1>1, <1>4, FS_AddElement DEF BookHeld, Refs
<1>6. LinkedTo(links, row) = others \cup {l}
  BY <1>1 DEF LinkedTo
<1>7. Allocated(links, row)
  <2>1. \A k \in others : (k.amount > 0) = (row.amount > 0)
    BY <1>3 DEF Allocated, BookHeld
  <2>2. l.amount \in Int /\ row.amount \in Int /\ Sum(others) \in Int
    BY <1>4, LinkFields, RowFields, LinkSums
  <2>3. ASSUME row.amount > 0 PROVE Sum(others \cup {l}) <= row.amount
    <3>1. Sum(others \cup {l}) = Sum(others) + l.amount
      BY <1>2, <1>4, LinkSums
    <3>2. Size(Sum(others)) + Size(l.amount) <= Size(row.amount)
      BY <1>1
    <3>3. \A n \in Int : n <= Size(n) /\ Size(n) \in Int
      BY DEF Size
    <3>4. Size(row.amount) = row.amount
      BY <2>2, <2>3 DEF Size
    <3> HIDE DEF others
    <3> QED
      BY <2>2, <3>1, <3>2, <3>3, <3>4
  <2> HIDE DEF others
  <2> QED
    BY <1>1, <1>6, <2>1, <2>3 DEF Allocated
<1>8. \A other \in book.active : Allocated(links, other)
  <2> SUFFICES ASSUME NEW other \in book.active, other # row PROVE Allocated(links, other)
    BY <1>7
  <2>1. RefOf(other) # l.ref
    BY <1>1 DEF BookHeld, RefOf
  <2>2. LinkedTo(links, other) = LinkedTo(book.links, other)
    BY <2>1 DEF LinkedTo
  <2> HIDE DEF links
  <2> QED
    BY <2>2 DEF BookHeld, Allocated
<1> HIDE DEF links
<1>9. BookHeld([book EXCEPT !.links = links])
  BY <1>5, <1>8, LinksHeld
<1> QED
  BY <1>9 DEF links

LEMMA HeldByUnlink ==
  ASSUME NEW book \in BillingBook, BookHeld(book), NEW l \in book.links
  PROVE  BookHeld([book EXCEPT !.links = book.links \ {l}])
<1> DEFINE links == book.links \ {l}
<1>1. book.links \subseteq BillLink /\ IsFiniteSet(book.links)
  BY BookFields DEF BookHeld
<1>2. IsFiniteSet(links) /\ \A k \in links : k.ref \in Refs(book.history)
  BY <1>1, FS_Subset DEF BookHeld
<1>3. ASSUME NEW row \in book.active
      PROVE  Allocated(links, row)
  <2> DEFINE before == LinkedTo(book.links, row)
             after == LinkedTo(links, row)
  <2>1. after \in SUBSET before /\ before \in SUBSET book.links
    BY DEF LinkedTo
  <2>2. /\ \A k \in before : (k.amount > 0) = (row.amount > 0)
        /\ row.amount > 0 => Sum(before) <= row.amount
    BY DEF BookHeld, Allocated
  <2>3. IsFiniteSet(before) /\ IsFiniteSet(after) /\ before \in SUBSET BillLink
        /\ after \in SUBSET BillLink
    BY <1>1, <2>1, FS_Subset
  <2>4. row.amount \in Int
    BY BookFields, RowFields
  <2> HIDE DEF before, after
  <2>5. Sum(before) \in Int /\ Sum(after) \in Int
    BY <2>3, LinkSums
  <2>6. row.amount > 0 => Sum(after) <= Sum(before)
    BY <2>1, <2>2, <2>3, LinkSums
  <2>7. row.amount > 0 => Sum(after) <= row.amount
    BY <2>2, <2>4, <2>5, <2>6
  <2> QED
    BY <2>1, <2>2, <2>7 DEF Allocated, after
<1> HIDE DEF links
<1>4. BookHeld([book EXCEPT !.links = links])
  BY <1>2, <1>3, LinksHeld
<1> QED
  BY <1>4 DEF links

-----------------------------------------------------------------------------
(* The cases of the findings.                                               *)

LEMMA PairsFound ==
  ASSUME NEW book, NEW att, NEW f \in Findings(book, att)
  PROVE  f = <<f[1], f[2]>>
<1> DEFINE Pair(x) == x = <<x[1], x[2]>>
<1>1. \A kind, key, print : Pair(Found(kind, key, print))
  BY DEF Found
<1> HIDE DEF Pair
<1>2. \A x \in OfBook(book) : Pair(x)
  BY <1>1 DEF OfBook
<1>3. \A x \in Differences(book, att) : Pair(x)
  BY <1>1 DEF Differences
<1>4. \A x \in Findings(book, att) : Pair(x)
  BY <1>1, <1>2, <1>3 DEF Findings
<1> QED
  BY <1>4 DEF Pair

LEMMA CaseOpens ==
  ASSUME NEW print
  PROVE  /\ CaseShape(NewCase(print)) /\ NewCase(print).active
         /\ NewCase(print).print = print
BY FS_EmptySet DEF CaseShape, NewCase

LEMMA CaseReopens ==
  ASSUME NEW case, CaseShape(case), NEW print
  PROVE  /\ CaseShape(CaseAgain(case, print)) /\ CaseAgain(case, print).active
         /\ CaseAgain(case, print).print = print
<1> DEFINE next == CaseAgain(case, print)
<1>1. /\ next \in [print : {print}, active : {TRUE}, status : {"open", "closed"},
                   reviewed : {case.reviewed}]
      /\ next.status = "closed" => case.status = "closed" /\ case.print = print
  BY DEF CaseShape, CaseAgain
<1> HIDE DEF next
<1>2. CaseShape(next) /\ next.active /\ next.print = print
  BY <1>1 DEF CaseShape
<1> QED
  BY <1>2 DEF next

LEMMA CaseRests ==
  ASSUME NEW case, CaseShape(case), NEW next, next = [case EXCEPT !.active = FALSE]
  PROVE  CaseShape(next) /\ ~next.active
<1>1. /\ next \in [print : {case.print}, active : {FALSE}, status : {"open", "closed"},
                   reviewed : {case.reviewed}]
      /\ next.status = case.status
  BY DEF CaseShape
<1> QED
  BY <1>1 DEF CaseShape

\* After an evaluation the active cases are those it found.
LEMMA CasesSynced ==
  ASSUME NEW cases, NEW old, CasesOf(cases, old), NEW findings,
         \A f \in findings : f = <<f[1], f[2]>>
  PROVE  CasesOf(SyncedCases(cases, findings), findings)
<1> DEFINE found == {f[1] : f \in findings}
           finding(id) == CHOOSE f \in findings : f[1] = id
           next == SyncedCases(cases, findings)
<1>1. \A id \in found : finding(id) \in findings /\ finding(id) = <<id, finding(id)[2]>>
  <2> SUFFICES ASSUME NEW id \in found
               PROVE  finding(id) \in findings /\ finding(id) = <<id, finding(id)[2]>>
    OBVIOUS
  <2>1. \E f \in findings : f[1] = id
    OBVIOUS
  <2>2. finding(id) \in findings /\ finding(id)[1] = id
    BY <2>1
  <2> HIDE DEF finding
  <2> QED
    BY <2>2
<1>2. next = [id \in DOMAIN cases \cup found |->
                IF id \notin found THEN [cases[id] EXCEPT !.active = FALSE]
                ELSE IF id \in DOMAIN cases THEN CaseAgain(cases[id], finding(id)[2])
                ELSE NewCase(finding(id)[2])]
  BY DEF SyncedCases
<1>3. \A id \in DOMAIN cases : CaseShape(cases[id])
  BY DEF CasesOf
<1> HIDE DEF next, finding
<1>4. DOMAIN next = DOMAIN cases \cup found /\ next = [id \in DOMAIN next |-> next[id]]
  BY <1>2
<1>5. ASSUME NEW id \in DOMAIN next
      PROVE  /\ CaseShape(next[id]) /\ next[id].active = (id \in found)
             /\ id \in found => next[id].print = finding(id)[2]
  <2>1. CASE id \notin found
    <3>1. id \in DOMAIN cases /\ next[id] = [cases[id] EXCEPT !.active = FALSE]
      BY <1>2, <1>4, <2>1
    <3>2. CaseShape(next[id]) /\ ~next[id].active
      BY <1>3, <3>1, CaseRests
    <3>3. next[id].active \in BOOLEAN
      BY <3>2 DEF CaseShape
    <3> HIDE DEF found
    <3> QED
      BY <2>1, <3>2, <3>3
  <2>2. CASE id \in found /\ id \in DOMAIN cases
    <3>1. next[id] = CaseAgain(cases[id], finding(id)[2])
      BY <1>2, <1>4, <2>2
    <3>2. /\ CaseShape(next[id]) /\ next[id].active
          /\ next[id].print = finding(id)[2]
      BY <1>3, <2>2, <3>1, CaseReopens
    <3>3. next[id].active \in BOOLEAN
      BY <3>2 DEF CaseShape
    <3> HIDE DEF found
    <3> QED
      BY <2>2, <3>2, <3>3
  <2>3. CASE id \in found /\ id \notin DOMAIN cases
    <3>1. next[id] = NewCase(finding(id)[2])
      BY <1>2, <1>4, <2>3
    <3>2. /\ CaseShape(next[id]) /\ next[id].active
          /\ next[id].print = finding(id)[2]
      BY <3>1, CaseOpens
    <3>3. next[id].active \in BOOLEAN
      BY <3>2 DEF CaseShape
    <3> HIDE DEF found
    <3> QED
      BY <2>3, <3>2, <3>3
  <2> QED
    BY <2>1, <2>2, <2>3
<1>6. \A f \in findings : f[1] \in DOMAIN next /\ next[f[1]].active
  <2>1. \A f \in findings : f[1] \in found
    OBVIOUS
  <2> HIDE DEF found
  <2> QED
    BY <1>4, <1>5, <2>1
<1>7. \A id \in DOMAIN next : next[id].active => <<id, next[id].print>> \in findings
  <2> SUFFICES ASSUME NEW id \in DOMAIN next, next[id].active
               PROVE  <<id, next[id].print>> \in findings
    OBVIOUS
  <2>1. id \in found /\ next[id].print = finding(id)[2]
    <3> HIDE DEF found
    <3> QED
      BY <1>5
  <2>2. finding(id) \in findings /\ finding(id) = <<id, finding(id)[2]>>
    BY <1>1, <2>1
  <2> HIDE DEF found
  <2> QED
    BY <2>1, <2>2
<1> HIDE DEF found
<1>8. CasesOf(next, findings)
  BY <1>4, <1>5, <1>6, <1>7 DEF CasesOf
<1> QED
  BY <1>8 DEF next

\* A case is closed on the finding as it is.
CasesClosed(cases, id) ==
  [cases EXCEPT ![id].status = "closed", ![id].reviewed = {cases[id].print}]

LEMMA CaseCloses ==
  ASSUME NEW cases, NEW findings, CasesOf(cases, findings), NEW id \in DOMAIN cases
  PROVE  CasesOf(CasesClosed(cases, id), findings)
<1> DEFINE next == CasesClosed(cases, id)
           case == cases[id]
           closed == [case EXCEPT !.status = "closed", !.reviewed = {case.print}]
<1>1. CaseShape(case)
  BY DEF CasesOf
<1>2. closed \in [print : {case.print}, active : {case.active}, status : {"closed"},
                 reviewed : {{case.print}}]
  BY <1>1 DEF CaseShape
<1>3. next = [i \in DOMAIN cases |-> IF i = id THEN closed ELSE cases[i]]
  <2>1. cases = [i \in DOMAIN cases |-> cases[i]]
    BY DEF CasesOf
  <2> QED
    BY <2>1 DEF CasesClosed
<1> HIDE DEF closed, next
<1>4. CaseShape(closed) /\ closed.active = case.active /\ closed.print = case.print
  <2>1. IsFiniteSet({case.print}) /\ Cardinality({case.print}) = 1
    BY FS_Singleton
  <2>2. case.active \in BOOLEAN
    BY <1>1 DEF CaseShape
  <2> QED
    BY <1>2, <2>1, <2>2 DEF CaseShape
<1>5. /\ DOMAIN next = DOMAIN cases /\ next = [i \in DOMAIN next |-> next[i]]
      /\ \A i \in DOMAIN cases :
           next[i].active = cases[i].active /\ next[i].print = cases[i].print
           /\ CaseShape(next[i])
  <2>1. \A i \in DOMAIN cases : CaseShape(cases[i])
    BY DEF CasesOf
  <2> QED
    BY <1>3, <1>4, <2>1
<1>6. CasesOf(next, findings)
  BY <1>5 DEF CasesOf
<1> QED
  BY <1>6 DEF next

\* What is shown of the records once the page is rendered, and while it stands.
Billed ==
  /\ AttemptsTyped(fbAttempt) /\ BookHeld(fbBook)
  /\ fbJob # Resting => AttemptsTyped(fbJob.attempt) /\ BookHeld(fbJob.book)
  /\ CasesOf(fbCases, Findings(fbBook, fbAttempt))

LEMMA BilledByStart ==
  ASSUME BilledInv, NEW att, NEW book, Start(att, book), AttemptsTyped(att), BookHeld(book)
  PROVE  Billed'
<1>1. /\ fbJob'.attempt = att /\ fbJob'.book = book
      /\ fbAttempt' = fbAttempt /\ fbBook' = fbBook /\ fbCases' = fbCases
  BY DEF Start
<1>2. AttemptsTyped(fbAttempt') /\ BookHeld(fbBook')
  BY <1>1 DEF BilledInv
<1>3. AttemptsTyped(fbJob'.attempt) /\ BookHeld(fbJob'.book)
  BY <1>1
<1>4. CasesOf(fbCases', Findings(fbBook', fbAttempt'))
  BY <1>1 DEF BilledInv
<1> QED
  BY <1>2, <1>3, <1>4 DEF Billed

LEMMA BilledWhenRendered ==
  ASSUME BilledInv, NEW att, NEW book, Rendered(book, att), AttemptsTyped(att),
         BookHeld(book), fbJob' = fbJob \/ fbJob' = Resting
  PROVE  Billed'
<1>1. /\ fbBook' = book /\ fbAttempt' = att
      /\ fbCases' = SyncedCases(fbCases, Findings(book, att))
  BY DEF Rendered
<1>2. CasesOf(fbCases, Findings(fbBook, fbAttempt))
  BY DEF BilledInv
<1>3. CasesOf(SyncedCases(fbCases, Findings(book, att)), Findings(book, att))
  <2> DEFINE findings == Findings(book, att)
             old == Findings(fbBook, fbAttempt)
  <2>1. \A f \in findings : f = <<f[1], f[2]>>
    BY PairsFound
  <2>2. CasesOf(fbCases, old)
    BY <1>2
  <2> HIDE DEF findings, old
  <2>3. CasesOf(SyncedCases(fbCases, findings), findings)
    BY <2>1, <2>2, CasesSynced
  <2> QED
    BY <2>3 DEF findings
<1>4. AttemptsTyped(fbAttempt') /\ BookHeld(fbBook')
  BY <1>1
<1>5. fbJob' # Resting => AttemptsTyped(fbJob'.attempt) /\ BookHeld(fbJob'.book)
  BY DEF BilledInv
<1>6. CasesOf(fbCases', Findings(fbBook', fbAttempt'))
  BY <1>1, <1>3
<1> QED
  BY <1>4, <1>5, <1>6 DEF Billed

\* One attempt gets a status, and perhaps a cost.
LEMMA AttemptTyped ==
  ASSUME NEW att, AttemptsTyped(att), NEW a \in BillAttempt,
         NEW status \in {"reserved", "unreconciled"}, NEW cost \in Nat
  PROVE  /\ AttemptsTyped([att EXCEPT ![a].status = status])
         /\ AttemptsTyped(Settled(att, a, cost))
BY DEF AttemptsTyped, Settled

LEMMA BilledStep ==
  ASSUME BilledInv, BillingNext
  PROVE  Billed'
<1>1. /\ BillingInv /\ fbBook \in BillingBook /\ BookHeld(fbBook)
      /\ AttemptsTyped(fbAttempt)
  BY DEF BilledInv, BillingInv
<1>2. ASSUME NEW b \in Batch, NEW resolves \in SUBSET Unresolved(fbBook),
             ImportBilling(b, resolves)
      PROVE  Billed'
  <2>1. BookHeld(Imported(fbBook, b, resolves))
    BY <1>1, <1>2, HeldByImport DEF ImportBilling
  <2> QED
    BY <1>1, <1>2, <2>1, BilledByStart DEF ImportBilling
<1>3. ASSUME NEW a \in BillAttempt, SettleFromBilling(a)
      PROVE  Billed'
  <2> DEFINE cost == Sum(LinksOf(fbBook, a))
  <2>1. cost \in Nat
    <3>1. LinksOf(fbBook, a) \in SUBSET fbBook.links
      BY DEF LinksOf, CurrentLinks
    <3>2. IsFiniteSet(LinksOf(fbBook, a)) /\ LinksOf(fbBook, a) \in SUBSET BillLink
      BY <1>1, <3>1, BookFields, FS_Subset DEF BookHeld
    <3>3. cost \in Int
      BY <3>2, LinkSums
    <3>4. cost >= 0
      BY <1>3 DEF SettleFromBilling, Billable
    <3> HIDE DEF cost
    <3> QED
      BY <3>3, <3>4
  <2>2. Start(Settled(fbAttempt, a, cost), fbBook)
    BY <1>3 DEF SettleFromBilling
  <2> HIDE DEF cost
  <2>3. AttemptsTyped(Settled(fbAttempt, a, cost))
    BY <1>1, <2>1, AttemptTyped
  <2> QED
    BY <1>1, <2>2, <2>3, BilledByStart
<1>4. ASSUME NEW a \in BillAttempt, ReserveByHand(a)
      PROVE  Billed'
  BY <1>1, <1>4, AttemptTyped, BilledWhenRendered DEF ReserveByHand, Recorded
<1>5. ASSUME NEW a \in BillAttempt, SettleByHand(a)
      PROVE  Billed'
  <2>1. CASE \E c \in HandCost : Recorded(Settled(fbAttempt, a, c))
    BY <1>1, <2>1, AttemptTyped, BilledWhenRendered, BillingAssumption DEF Recorded
  <2>2. CASE Recorded([fbAttempt EXCEPT ![a].status = "unreconciled"])
    BY <1>1, <2>2, AttemptTyped, BilledWhenRendered DEF Recorded
  <2> QED
    BY <1>5, <2>1, <2>2 DEF SettleByHand
<1>6. CASE CommitJob
  BY <1>6, BilledWhenRendered DEF CommitJob, BilledInv
<1>7. CASE DropJob
  BY <1>7 DEF DropJob, BilledInv, Billed, AttemptsTyped
<1>8. ASSUME NEW l \in BillLink, LinkBilling(l)
      PROVE  Billed'
  <2>1. BookHeld([fbBook EXCEPT !.links = fbBook.links \cup {l}])
    BY <1>1, <1>8, HeldByLink DEF LinkBilling
  <2> QED
    BY <1>1, <1>8, <2>1, BilledWhenRendered DEF LinkBilling, Relinked
<1>9. ASSUME NEW l \in fbBook.links, UnlinkBilling(l)
      PROVE  Billed'
  <2>1. BookHeld([fbBook EXCEPT !.links = fbBook.links \ {l}])
    BY <1>1, HeldByUnlink
  <2> QED
    BY <1>1, <1>9, <2>1, BilledWhenRendered DEF UnlinkBilling, Relinked
<1>10. ASSUME NEW id \in DOMAIN fbCases, CloseCase(id)
       PROVE  Billed'
  <2>1. fbAttempt' = fbAttempt /\ fbBook' = fbBook /\ fbJob' = fbJob
    BY <1>10 DEF CloseCase
  <2>2. CasesOf(fbCases', Findings(fbBook, fbAttempt))
    <3> DEFINE findings == Findings(fbBook, fbAttempt)
    <3>1. CasesOf(fbCases, findings)
      BY DEF BilledInv
    <3>2. fbCases' = CasesClosed(fbCases, id)
      BY <1>10 DEF CloseCase, CasesClosed
    <3> HIDE DEF findings
    <3>3. CasesOf(fbCases', findings)
      BY <3>1, <3>2, CaseCloses
    <3> QED
      BY <3>3 DEF findings
  <2>3. fbJob' # Resting => AttemptsTyped(fbJob'.attempt) /\ BookHeld(fbJob'.book)
    BY <2>1 DEF BilledInv
  <2>4. AttemptsTyped(fbAttempt') /\ BookHeld(fbBook')
    BY <1>1, <2>1
  <2>5. CasesOf(fbCases', Findings(fbBook', fbAttempt'))
    BY <2>1, <2>2
  <2> QED
    BY <2>3, <2>4, <2>5 DEF Billed
<1> QED
  BY <1>2, <1>3, <1>4, <1>5, <1>6, <1>7, <1>8, <1>9, <1>10 DEF BillingNext

LEMMA BilledInvInit == BillingInit => BilledInv
<1> SUFFICES ASSUME BillingInit PROVE BilledInv
  OBVIOUS
<1>1. fbBook \in BillingBook
  BY DEF BillingInit, BillingBook
<1>2. Attempts(fbAttempt) /\ AttemptsTyped(fbAttempt)
  BY DEF BillingInit, Attempts, AttemptsTyped, NoCost
<1>3. BookHeld(fbBook)
  BY FS_EmptySet DEF BillingInit, BookHeld
<1>4. CasesOf(fbCases, Findings(fbBook, fbAttempt))
  <2> DEFINE none == [id \in {} |-> {}]
             findings == Findings(fbBook, fbAttempt)
  <2>1. CasesOf(none, {})
    BY DEF CasesOf
  <2>2. \A f \in findings : f = <<f[1], f[2]>>
    BY PairsFound
  <2>3. fbCases = SyncedCases(none, findings)
    BY DEF BillingInit
  <2> HIDE DEF none, findings
  <2>4. CasesOf(SyncedCases(none, findings), findings)
    BY <2>1, <2>2, CasesSynced
  <2> QED
    BY <2>3, <2>4 DEF findings
<1>5. fbJob = Resting
  BY DEF BillingInit
<1> QED
  BY <1>1, <1>2, <1>3, <1>4, <1>5 DEF BilledInv, BillingInv

LEMMA BilledInvNext == BilledInv /\ [BillingNext]_fbVars => BilledInv'
<1> SUFFICES ASSUME BilledInv, [BillingNext]_fbVars PROVE BilledInv'
  OBVIOUS
<1>1. CASE BillingNext
  <2>1. BillingInv'
    BY <1>1, BillingStep DEF BilledInv, BillingStands
  <2>2. Billed'
    BY <1>1, BilledStep
  <2> QED
    BY <2>1, <2>2 DEF BilledInv, Billed
<1>2. CASE UNCHANGED fbVars
  BY <1>2 DEF fbVars, BilledInv, BillingInv, Attempts
<1> QED
  BY <1>1, <1>2

\* An attempt that no case questions cost what is linked to it.
LEMMA UnquestionedCost ==
  ASSUME BilledInv, fbBook.runs # <<>>, NEW a \in BillAttempt,
         fbAttempt[a].status = "settled",
         <<"ledger-difference", a>> \notin {id \in DOMAIN fbCases : fbCases[id].active}
  PROVE  fbAttempt[a].cost = Sum(LinksOf(fbBook, a))
<1>1. SUFFICES ASSUME Differs(fbBook, fbAttempt, a) PROVE FALSE
  BY DEF Differs
<1> DEFINE f == Found("ledger-difference", a, <<fbAttempt[a].cost, LinksOf(fbBook, a)>>)
<1>2. f \in Findings(fbBook, fbAttempt)
  BY <1>1 DEF Findings, Differences
<1>3. f[1] = <<"ledger-difference", a>>
  BY DEF Found
<1> HIDE DEF f
<1> QED
  BY <1>2, <1>3 DEF BilledInv, CasesOf

\* The links of a record add up to no more than it bills.
LEMMA LinkedCost ==
  ASSUME BilledInv, NEW row \in fbBook.active, row.amount > 0
  PROVE  /\ Sum(LinkedTo(fbBook.links, row)) \in Int /\ row.amount \in Int
         /\ Sum(LinkedTo(fbBook.links, row)) <= row.amount
<1>1. fbBook \in BillingBook /\ BookHeld(fbBook)
  BY DEF BilledInv, BillingInv
<1>2. LinkedTo(fbBook.links, row) \subseteq fbBook.links
  BY DEF LinkedTo
<1>3. /\ IsFiniteSet(LinkedTo(fbBook.links, row))
      /\ LinkedTo(fbBook.links, row) \in SUBSET BillLink
  BY <1>1, <1>2, BookFields, FS_Subset DEF BookHeld
<1>4. Sum(LinkedTo(fbBook.links, row)) <= row.amount
  BY <1>1 DEF BookHeld, Allocated
<1> QED
  BY <1>1, <1>3, <1>4, BookFields, RowFields, LinkSums

\* All links to records that bill something, added up by record.
LEMMA LinkedToBilled ==
  ASSUME BilledInv
  PROVE  LET current == CurrentLinks(fbBook)
             f == [l \in current |-> l.amount]
             billed == {row \in fbBook.active : row.amount > 0}
         IN SumFunctionOnSet(f, {l \in current : f[l] > 0})
              <= SumFunctionOnSet([row \in billed |-> row.amount], billed)
<1> DEFINE current == CurrentLinks(fbBook)
           f == [l \in current |-> l.amount]
           gain == {l \in current : f[l] > 0}
           billed == {row \in fbBook.active : row.amount > 0}
           amount == [row \in billed |-> row.amount]
           linked == [row \in billed |-> Sum(LinkedTo(fbBook.links, row))]
           rowOf == [l \in gain |-> CHOOSE row \in fbBook.active : RefOf(row) = l.ref]
<1>1. fbBook \in BillingBook /\ BookHeld(fbBook)
  BY DEF BilledInv, BillingInv
<1>2. /\ fbBook.links \subseteq BillLink /\ IsFiniteSet(fbBook.links)
      /\ IsFiniteSet(fbBook.active)
  BY <1>1, BookFields DEF BookHeld
<1>3. /\ current \subseteq fbBook.links /\ gain \subseteq current
      /\ IsFiniteSet(current) /\ IsFiniteSet(gain) /\ IsFiniteSet(billed)
  <2>1. current \subseteq fbBook.links /\ gain \subseteq current /\ billed \subseteq fbBook.active
    BY DEF CurrentLinks
  <2> HIDE DEF current, gain, billed
  <2> QED
    BY <1>2, <2>1, FS_Subset
<1>4. \A l \in current : l.amount \in Int /\ f[l] = l.amount
  BY <1>2, <1>3, LinkFields
<1>5. \A l \in gain : rowOf[l] \in billed /\ RefOf(rowOf[l]) = l.ref
  <2> SUFFICES ASSUME NEW l \in gain PROVE rowOf[l] \in billed /\ RefOf(rowOf[l]) = l.ref
    OBVIOUS
  <2>1. l \in current /\ l \in fbBook.links /\ l.amount > 0
    BY <1>3, <1>4
  <2>2. \E row \in fbBook.active : RefOf(row) = l.ref
    BY <2>1 DEF CurrentLinks, Refs
  <2>3. rowOf[l] \in fbBook.active /\ RefOf(rowOf[l]) = l.ref
    BY <2>2
  <2> HIDE DEF rowOf
  <2>4. l \in LinkedTo(fbBook.links, rowOf[l])
    BY <2>1, <2>3 DEF LinkedTo
  <2>5. rowOf[l].amount > 0
    BY <1>1, <2>1, <2>3, <2>4 DEF BookHeld, Allocated
  <2> QED
    BY <2>3, <2>5
<1>6. \A row, other \in fbBook.active : RefOf(row) = RefOf(other) => row = other
  BY <1>1 DEF BookHeld, RefOf
<1>7. ASSUME NEW row \in billed
      PROVE  /\ LinkedTo(fbBook.links, row) \subseteq gain
             /\ \A l \in gain : l \in LinkedTo(fbBook.links, row) <=> rowOf[l] = row
             /\ linked[row] = SumFunctionOnSet(f, LinkedTo(fbBook.links, row))
  <2>1. \A l \in LinkedTo(fbBook.links, row) : l.amount > 0
    BY <1>1 DEF BookHeld, Allocated
  <2>2. LinkedTo(fbBook.links, row) \subseteq gain
    BY <2>1, <1>4 DEF LinkedTo, CurrentLinks, Refs
  <2>3. \A l \in gain : l \in LinkedTo(fbBook.links, row) <=> l.ref = RefOf(row)
    BY <1>3 DEF LinkedTo
  <2> HIDE DEF rowOf, gain
  <2>4. \A l \in gain : rowOf[l] = row <=> l.ref = RefOf(row)
    BY <1>5, <1>6
  <2>5. LinkedTo(fbBook.links, row) \in SUBSET current
    BY <1>3, <2>2
  <2> HIDE DEF current
  <2>6. Sum(LinkedTo(fbBook.links, row)) = SumFunctionOnSet(f, LinkedTo(fbBook.links, row))
    BY <1>3, <2>5, PartialSum
  <2> QED
    BY <2>2, <2>3, <2>4, <2>6
<1>8. \A row \in billed : linked[row] \in Int /\ amount[row] \in Int /\ linked[row] <= amount[row]
  BY LinkedCost
<1> HIDE DEF current, f, rowOf, billed, linked, amount
<1>9. SumFunctionOnSet(linked, billed) = SumFunctionOnSet(f, gain)
  <2>1. \A l \in gain : f[l] \in Int
    BY <1>4
  <2>2. Keyed(gain, rowOf, billed) = gain
    BY <1>5 DEF Keyed
  <2> HIDE DEF gain
  <2>3. ASSUME NEW row \in billed
        PROVE  linked[row] = SumFunctionOnSet(f, OneKey(gain, rowOf, row))
    <3>1. LinkedTo(fbBook.links, row) = OneKey(gain, rowOf, row)
      BY <1>7 DEF OneKey
    <3> QED
      BY <1>7, <3>1
  <2>4. SumFunctionOnSet(linked, billed) = SumFunctionOnSet(f, Keyed(gain, rowOf, billed))
    BY <1>3, <2>1, <2>3, SumGrouped
  <2> QED
    BY <2>2, <2>4
<1>10. SumFunctionOnSet(linked, billed) <= SumFunctionOnSet(amount, billed)
  BY <1>3, <1>8, SumMonotonic
<1>11. SumFunctionOnSet(f, gain) <= SumFunctionOnSet(amount, billed)
  BY <1>9, <1>10
<1> QED
  BY <1>11 DEF gain, f, current, billed, amount

\* The costs that nothing questions are linked to records that bill them.
LEMMA CostsAddUp ==
  ASSUME BilledInv, NEW U \in SUBSET BillAttempt,
         \A a \in U : fbAttempt[a].cost = Sum(LinksOf(fbBook, a))
  PROVE  LET billed == {row \in fbBook.active : row.amount > 0}
         IN SumFunctionOnSet([a \in U |-> fbAttempt[a].cost], U)
              <= SumFunctionOnSet([row \in billed |-> row.amount], billed)
<1> DEFINE current == CurrentLinks(fbBook)
           f == [l \in current |-> l.amount]
           key == [l \in current |-> l.attempt]
           cost == [a \in U |-> fbAttempt[a].cost]
           theirs == Keyed(current, key, U)
           billed == {row \in fbBook.active : row.amount > 0}
           amount == [row \in billed |-> row.amount]
<1>1. fbBook \in BillingBook /\ BookHeld(fbBook)
  BY DEF BilledInv, BillingInv
<1>2. /\ IsFiniteSet(current) /\ IsFiniteSet(U) /\ IsFiniteSet(billed)
      /\ \A l \in current : f[l] \in Int
  <2>1. current \subseteq fbBook.links /\ billed \subseteq fbBook.active
    BY DEF CurrentLinks
  <2>2. \A l \in current : f[l] \in Int
    BY <1>1, <2>1, BookFields, LinkFields
  <2> HIDE DEF current, f
  <2> QED
    BY <1>1, <2>1, <2>2, FS_Subset, BillingAssumption DEF BookHeld
<1>3. ASSUME NEW a \in U
      PROVE  cost[a] = SumFunctionOnSet(f, OneKey(current, key, a))
  <2>1. LinksOf(fbBook, a) = OneKey(current, key, a)
    BY DEF LinksOf, OneKey
  <2>2. LinksOf(fbBook, a) \in SUBSET current
    BY DEF LinksOf
  <2> HIDE DEF current, key
  <2>3. Sum(LinksOf(fbBook, a)) = SumFunctionOnSet(f, LinksOf(fbBook, a))
    BY <1>2, <2>2, PartialSum
  <2> QED
    BY <2>1, <2>3
<1>4. SumFunctionOnSet(f, {l \in current : f[l] > 0}) <= SumFunctionOnSet(amount, billed)
  BY LinkedToBilled
<1>5. \A row \in billed : amount[row] \in Int
  BY <1>1, BookFields, RowFields
<1> HIDE DEF current, f, key, cost, billed, amount
<1>6. SumFunctionOnSet(cost, U) = SumFunctionOnSet(f, theirs)
  BY <1>2, <1>3, SumGrouped
<1>7. SumFunctionOnSet(f, theirs) <= SumFunctionOnSet(f, {l \in current : f[l] > 0})
  <2>1. theirs \in SUBSET current
    BY DEF Keyed
  <2> HIDE DEF theirs
  <2> QED
    BY <1>2, <2>1, SumPositive
<1>8. /\ SumFunctionOnSet(f, theirs) \in Int /\ SumFunctionOnSet(amount, billed) \in Int
      /\ SumFunctionOnSet(f, {l \in current : f[l] > 0}) \in Int
  <2>1. /\ IsFiniteSet(theirs) /\ theirs \subseteq current
        /\ IsFiniteSet({l \in current : f[l] > 0})
    BY <1>2, FS_Subset DEF Keyed
  <2> QED
    BY <1>2, <1>5, <2>1, SumInt
<1>9. SumFunctionOnSet(cost, U) <= SumFunctionOnSet(amount, billed)
  BY <1>4, <1>6, <1>7, <1>8
<1> QED
  BY <1>9 DEF cost, amount, billed

LEMMA BilledExplains == BilledInv => CostsExplained
<1> SUFFICES ASSUME BilledInv PROVE CostsExplained
  OBVIOUS
<1> DEFINE shown == {id \in DOMAIN fbCases : fbCases[id].active}
           unquestioned == {a \in BillAttempt : fbAttempt[a].status = "settled"
                                                /\ <<"ledger-difference", a>> \notin shown}
           billed == {row \in fbBook.active : row.amount > 0}
<1>1. ASSUME fbBook.runs # <<>>
      PROVE  SumFunctionOnSet([a \in unquestioned |-> fbAttempt[a].cost], unquestioned)
               <= SumFunctionOnSet([row \in billed |-> row.amount], billed)
  <2>1. unquestioned \in SUBSET BillAttempt
    OBVIOUS
  <2>2. \A a \in unquestioned : fbAttempt[a].cost = Sum(LinksOf(fbBook, a))
    BY <1>1, UnquestionedCost
  <2> HIDE DEF unquestioned
  <2> QED
    BY <2>1, <2>2, CostsAddUp
<1>2. ASSUME NEW id \in shown, fbCases[id].status = "closed"
      PROVE  /\ fbCases[id].reviewed = {fbCases[id].print}
             /\ <<id, fbCases[id].print>> \in Findings(fbBook, fbAttempt)
  BY <1>2 DEF BilledInv, CasesOf, CaseShape
<1> HIDE DEF unquestioned, billed
<1> QED
  BY <1>1, <1>2 DEF CostsExplained, unquestioned, billed

\* However records are corrected, removed and linked again, the settled costs
\* that no ledger difference questions are no more than what the source bills,
\* and a case on show is closed only by a review of the finding as it is.
THEOREM CostsAreExplained == BillingSpec => []CostsExplained
<1>1. BillingInit => BilledInv
  BY BilledInvInit
<1>2. BilledInv /\ [BillingNext]_fbVars => BilledInv'
  BY BilledInvNext
<1> QED
  BY <1>1, <1>2, BilledExplains, PTL DEF BillingSpec

\* Attempts, the book and its runs, and the cases are of the shape they are read
\* with; in particular a settled cost is never negative.
THEOREM BillingTyped == BillingSpec => []BillingTypeOK
<1>1. BillingInit => BilledInv
  BY BilledInvInit
<1>2. BilledInv /\ [BillingNext]_fbVars => BilledInv'
  BY BilledInvNext
<1>3. BilledInv => BillingTypeOK
  <2> SUFFICES ASSUME BilledInv PROVE BillingTypeOK
    OBVIOUS
  <2>1. ASSUME NEW book \in BillingBook, BookHeld(book)
        PROVE  BookTyped(book)
    <3>1. \A i \in DOMAIN book.runs : book.runs[i] \in BillingRun
      BY BookFields
    <3> QED
      BY <2>1, <3>1, BookFields DEF BookTyped, BookHeld, BillingRun
  <2>2. AttemptsTyped(fbAttempt) /\ BookTyped(fbBook)
    BY <2>1 DEF BilledInv, BillingInv
  <2>3. fbJob # Resting => AttemptsTyped(fbJob.attempt) /\ BookTyped(fbJob.book)
    BY <2>1 DEF BilledInv, BillingInv
  <2>4. \A id \in DOMAIN fbCases :
          /\ fbCases[id].status \in {"open", "closed"} /\ fbCases[id].active \in BOOLEAN
          /\ Cardinality(fbCases[id].reviewed) <= 1
    BY DEF BilledInv, CasesOf, CaseShape
  <2> QED
    BY <2>2, <2>3, <2>4 DEF BillingTypeOK
<1> QED
  BY <1>1, <1>2, <1>3, PTL DEF BillingSpec


-----------------------------------------------------------------------------
(* All of them beside one another, as MCLedgers runs them.                  *)

LEMMA AuthorityKept ==
  AuthorityTypeOK /\ [VerifyAuthority]_auVars => AuthorityTypeOK'
BY DEF AuthorityTypeOK, VerifyAuthority, auVars, ActionDecision

\* A behaviour of the composition is one of each of its parts, so what is proved
\* of a part holds there.
THEOREM LedgersRunParts ==
  Spec => /\ FinOpsSpec /\ BillingSpec /\ DataSpec /\ RegistrySpec /\ CurationSpec
          /\ [](AuthorityTypeOK)
<1>1. Init => /\ FinOpsInit /\ BillingInit /\ DataInit /\ RegistryInit /\ CurationInit
              /\ AuthorityTypeOK
  BY DEF Init, AuthorityInit, AuthorityIdle, AuthorityTypeOK
<1> DEFINE all == <<part, vars, fbVars, daVars, arVars, kbVars, auVars>>
<1>2. [Next]_all => /\ [FinOpsNext]_vars /\ [BillingNext]_fbVars /\ [DataNext]_daVars
                    /\ [RegistryNext]_arVars /\ [CurationNext]_kbVars
                    /\ [VerifyAuthority]_auVars
  BY DEF Next
<1>3. Spec <=> Init /\ [][Next]_all
  BY DEF Spec
<1> HIDE DEF all
<1> QED
  BY <1>1, <1>2, <1>3, AuthorityKept, PTL
     DEF FinOpsSpec, BillingSpec, DataSpec, RegistrySpec, CurationSpec

\* Whichever part runs, its records are of the shape they are read with.
THEOREM LedgersTyped == Spec => []LedgerTypesOK
<1>1. Init => part \in Parts
  BY DEF Init
<1> DEFINE all == <<part, vars, fbVars, daVars, arVars, kbVars, auVars>>
<1>2. part \in Parts /\ [Next]_all => (part \in Parts)'
  BY DEF Next
<1>3. Spec => [](part \in Parts)
  <2> HIDE DEF all
  <2>1. Spec <=> Init /\ [][Next]_all
    BY DEF Spec, all
  <2> QED
    BY <1>1, <1>2, <2>1, PTL
<1>4. /\ FinOpsTypeOK /\ BillingTypeOK /\ DataTypeOK /\ RegistryTypeOK /\ CurationTypeOK
      /\ AuthorityTypeOK /\ part \in Parts
      => LedgerTypesOK
  BY PartsAssumption DEF LedgerTypesOK
<1> QED
  BY <1>3, <1>4, LedgersRunParts, FinOpsTyped, BillingTyped, DataTyped, RegistryTyped,
     CurationTyped, PTL
=============================================================================
