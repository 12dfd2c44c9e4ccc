-------------------------- MODULE KnowledgeCuration --------------------------
(***************************************************************************)
(* Drafts, reviews and published records of the curated knowledge base     *)
(* (palo-mcp-server/knowledge-base.js): one JSON file per draft in each of *)
(* three directories, written by a rename and never replaced, by the one   *)
(* server that owns the workspace.  A crash may fall between the file of a *)
(* review and that of the record it publishes.                             *)
(***************************************************************************)
EXTENDS Sequences

CONSTANTS
  Draft, Curator,
  Separation  \* requireReviewerSeparation

ASSUME CurationAssumption == Separation \in BOOLEAN

VARIABLES
  kbDraft,      \* directory drafts: who submitted each
  kbReview,     \* directory reviews
  kbPublished,  \* directory published: the review each record names
  kbReviewing   \* the review being written, with the files still to come

kbVars == <<kbDraft, kbReview, kbPublished, kbReviewing>>

NoFile == [by |-> "nobody", status |-> "none"]
ReviewFile == [by : Curator, status : {"accepted", "rejected"}]
NoReview == [draft |-> "none", review |-> NoFile, files |-> <<>>]

CurationTypeOK ==
  /\ kbDraft \in [Draft -> Curator \cup {NoFile.by}]
  /\ kbReview \in [Draft -> ReviewFile \cup {NoFile}]
  /\ kbPublished \in [Draft -> ReviewFile \cup {NoFile}]
  /\ kbReviewing.draft \in Draft \cup {NoReview.draft}
  /\ kbReviewing.review \in ReviewFile \cup {NoFile}
  /\ kbReviewing.files \in Seq({"review", "published"})

CurationInit ==
  /\ kbDraft = [d \in Draft |-> NoFile.by]
  /\ kbReview = [d \in Draft |-> NoFile]
  /\ kbPublished = [d \in Draft |-> NoFile]
  /\ kbReviewing = NoReview
-----------------------------------------------------------------------------
\* A draft has a random identifier.  What it supersedes is only recorded.
SubmitDraft(d, p) ==
  /\ kbReviewing = NoReview
  /\ kbDraft[d] = NoFile.by
  /\ kbDraft' = [kbDraft EXCEPT ![d] = p]
  /\ UNCHANGED <<kbReview, kbPublished, kbReviewing>>

\* A mutation: the record is published before its review is kept.
FilesPublishedFirst(status) ==
  IF status = "accepted" THEN <<"published", "review">> ELSE <<"review">>

FilesOf(status) == IF status = "accepted" THEN <<"review", "published">> ELSE <<"review">>

\* reviewDraft up to its first write.  An acceptance needs the whole checklist.
ReviewDraft(d, p, status) ==
  /\ kbReviewing = NoReview
  /\ kbDraft[d] # NoFile.by
  /\ kbReview[d] = NoFile
  /\ Separation => p # kbDraft[d]
  /\ kbReviewing' = [draft |-> d, review |-> [by |-> p, status |-> status],
                     files |-> FilesOf(status)]
  /\ UNCHANGED <<kbDraft, kbReview, kbPublished>>

Rest(files) == IF files = <<>> THEN NoReview ELSE [kbReviewing EXCEPT !.files = files]

\* writeJsonAtomic: a file that exists is not replaced.
WriteReviewFile ==
  LET d == kbReviewing.draft IN
  /\ kbReviewing.files # <<>> /\ Head(kbReviewing.files) = "review"
  /\ kbReview[d] = NoFile
  /\ kbReview' = [kbReview EXCEPT ![d] = kbReviewing.review]
  /\ kbReviewing' = Rest(Tail(kbReviewing.files))
  /\ UNCHANGED <<kbDraft, kbPublished>>

WritePublishedFile ==
  LET d == kbReviewing.draft IN
  /\ kbReviewing.files # <<>> /\ Head(kbReviewing.files) = "published"
  /\ kbPublished[d] = NoFile
  /\ kbPublished' = [kbPublished EXCEPT ![d] = kbReviewing.review]
  /\ kbReviewing' = Rest(Tail(kbReviewing.files))
  /\ UNCHANGED <<kbDraft, kbReview>>

\* The server stops, or a write fails.
ReviewInterrupted ==
  /\ kbReviewing # NoReview
  /\ kbReviewing' = NoReview
  /\ UNCHANGED <<kbDraft, kbReview, kbPublished>>

CurationNext ==
  \/ \E d \in Draft, p \in Curator :
       SubmitDraft(d, p) \/ \E status \in {"accepted", "rejected"} : ReviewDraft(d, p, status)
  \/ WriteReviewFile
  \/ WritePublishedFile
  \/ ReviewInterrupted

CurationSpec == CurationInit /\ [][CurationNext]_kbVars
-----------------------------------------------------------------------------
\* Wherever the server stops, a published record names the one review of its
\* draft that is on file, which accepted it and is not its author's where the
\* profile separates them (reviewDraft, knowledge-base.js:268).
PublishedAsReviewed ==
  \A d \in Draft : kbPublished[d] # NoFile =>
    /\ kbReview[d] = kbPublished[d]
    /\ kbPublished[d].status = "accepted"
    /\ Separation => kbPublished[d].by # kbDraft[d]
=============================================================================
