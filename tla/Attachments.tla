---------------------------- MODULE Attachments ----------------------------
(***************************************************************************)
(* The request-local files of a chat turn (runtime/src/attachments.rs):    *)
(* the bounds Team's field is admitted under, what a turn that reads their *)
(* content may offer, and the token ceilings they are charged against.     *)
(*                                                                         *)
(* A file is what the bounds see of it.  malformed stands for every closed *)
(* shape, pattern, digest or encoding its field can break; chars and bytes *)
(* are a text's, pixels an image's, encoded the length of the wire form.   *)
(***************************************************************************)
EXTENDS Integers, SequencesExt, FiniteSetsExt

CONSTANTS
  MaxFiles,      \* MAX_ATTACHMENTS
  MaxImages,     \* MAX_ATTACHMENT_IMAGES
  MaxTextChars,  \* MAX_ATTACHMENT_TEXT_CHARS
  MaxAllChars,   \* MAX_ATTACHED_TEXT_CHARS
  MaxPixels,     \* ATTACHMENT_IMAGE_PIXELS
  MaxField,      \* MAX_ATTACHMENTS_FIELD_BYTES
  MaxFileTokens, \* MAX_FILE_TOKENS
  MaxCallTokens, \* MAX_CALL_TOKENS
  MaxTurnTokens  \* MAX_TURN_TOKENS

Content == {"text", "image", "opaque"}

File ==
  [id : Nat, content : Content, malformed : BOOLEAN, chars : Nat,
   pixels : Nat, encoded : Nat]

-----------------------------------------------------------------------------
(* admit *)

content(file) ==
  CASE file.content = "text" -> file.chars \in 1..MaxTextChars
    [] file.content = "image" -> file.pixels \in 1..MaxPixels
    [] file.content = "opaque" -> TRUE

Of(files, kind) == SelectSeq(files, LAMBDA file : file.content = kind)

Total(measure(_), files) ==
  FoldLeft(LAMBDA sum, file : sum + measure(file), 0, files)

within_message(files) ==
  /\ Len(Of(files, "image")) <= MaxImages
  /\ Total(LAMBDA file : file.chars, Of(files, "text")) <= MaxAllChars
  /\ Total(LAMBDA file : file.encoded, files) <= MaxField

admitted(files) ==
  /\ Len(files) <= MaxFiles
  /\ \A i \in DOMAIN files : ~files[i].malformed /\ content(files[i])
  /\ \A i, j \in DOMAIN files : files[i].id = files[j].id => i = j
  /\ within_message(files)

(* The digest a resume must repeat: equal exactly for equal files. *)
commitment(files) == files

reads_content(files) == \E i \in DOMAIN files : files[i].content # "opaque"

(* The Actions a turn offers: all, or only the authorizing ones while file *)
(* content is in it.                                                       *)
exposed(actions, reads) ==
  IF reads THEN {action \in actions : action.authorization} ELSE actions

-----------------------------------------------------------------------------
(* The token ceilings *)

(* The estimate of an uncounted file: a token for every byte of what the   *)
(* call carries.  An image has none.                                       *)
Estimable(file) == file.content # "image"

estimated_charge(file) == file.encoded

(* The charge of one call, or nothing when a ceiling refuses the files. *)
admit_charges(charges) ==
  LET total == FoldLeft(LAMBDA sum, charge : sum + charge, 0, charges)
  IN IF \/ \E i \in DOMAIN charges : charges[i] > MaxFileTokens
        \/ total > MaxCallTokens
     THEN {} ELSE {total}

(* May a call that carries the charge still be made after so many? *)
admit_call(charge, calls) == charge > 0 => charge * (calls + 1) <= MaxTurnTokens

(* Mutant: every model turn counts once. *)
DispatchedOnce(messages, turn) ==
  Len(SelectSeq(SubSeq(messages, turn + 1, Len(messages)),
                LAMBDA m : m.role = "assistant"))

(* What a message of the turn reserved: a model turn its attempts, at      *)
(* least the one that answered.                                            *)
reserves(message) ==
  IF message.role # "assistant" THEN 0
  ELSE IF message.attempts > 1 THEN message.attempts ELSE 1

(* The attempts the turn already reserved, as its model turns record them. *)
dispatched(messages, turn) ==
  LET reserved[k \in 0..Len(messages)] ==
        IF k <= turn THEN 0 ELSE reserved[k - 1] + reserves(messages[k])
  IN reserved[Len(messages)]
=============================================================================
