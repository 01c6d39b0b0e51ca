--------------------------- MODULE UploadRegistry ---------------------------
(***************************************************************************)
(* What POST /api/v1/extract promises its clients: the first upload of a   *)
(* document claims it for good, and every upload of that document that is  *)
(* answered with a task is answered with the claimant's task.  Everything  *)
(* else (dispatch, retries, the lost insert race) is the implementation's. *)
(***************************************************************************)
CONSTANTS Uploads, Fingerprint, Absent

VARIABLES
  owner,    \* the upload whose task holds each document, or Absent
  answer    \* what each upload was told: a task, "refused" or still "pending"

Documents == {Fingerprint[r] : r \in Uploads}

Init ==
  /\ owner = [f \in Documents |-> Absent]
  /\ answer = [r \in Uploads |-> "pending"]

Claim(r) ==
  /\ answer[r] = "pending"
  /\ owner[Fingerprint[r]] = Absent
  /\ owner' = [owner EXCEPT ![Fingerprint[r]] = r]
  /\ UNCHANGED answer

Grant(r) ==
  /\ answer[r] = "pending"
  /\ owner[Fingerprint[r]] # Absent
  /\ answer' = [answer EXCEPT ![r] = owner[Fingerprint[r]]]
  /\ UNCHANGED owner

Refuse(r) ==
  /\ answer[r] = "pending"
  /\ answer' = [answer EXCEPT ![r] = "refused"]
  /\ UNCHANGED owner

Next == \E r \in Uploads : Claim(r) \/ Grant(r) \/ Refuse(r)

Spec == Init /\ [][Next]_<<owner, answer>>
=============================================================================
