------------------------------- MODULE Listing -------------------------------
(***************************************************************************)
(* A seller's forms: the image of an auction is uploaded first, the        *)
(* auction is then created or changed to point at it, and an image whose   *)
(* auction was refused is removed again.  The calls go on when the page is *)
(* left, so that several forms can be under way.                           *)
(***************************************************************************)
EXTENDS Integers, FiniteSets

CONSTANTS
  Forms,       \* forms and delete dialogues the seller opens, each sent once
  MaxUploads,  \* bound on uploads
  MaxLapses    \* bound on calls that are lost and on failures of the storage

ASSUME ListingBounds == {MaxUploads, MaxLapses} \subseteq Nat

VARIABLES
  stored,    \* images in the storage
  item,      \* Auction rows with their Sneaker: a new one has the number of its image
  form,      \* each form: what it is for, its image, and how far its calls are
  uploads, lapses,
  replaced,  \* history: images an edit replaced or that went with their auction
  astray     \* history: images decided on without knowing what had become of a call

listingVars == <<stored, item, form, uploads, lapses, replaced, astray>>

Images == 0 .. MaxUploads
NoForm == [for |-> "none", of |-> 0, image |-> 0, new |-> FALSE, step |-> "none"]

(* One auction is there, with its image.                                       *)
ListingInit ==
  /\ stored = {0}
  /\ item = [a \in Images |-> [on |-> IF a = 0 THEN "listed" ELSE "absent", image |-> a]]
  /\ form = [f \in Forms |-> NoForm]
  /\ uploads = 0 /\ lapses = 0
  /\ replaced = {} /\ astray = {}

Lapse == lapses < MaxLapses /\ lapses' = lapses + 1
Steps(f, step) == form' = [form EXCEPT ![f].step = step]
StorageStays == UNCHANGED <<stored, uploads>>
HistoryStays == UNCHANGED <<replaced, astray>>

-----------------------------------------------------------------------------
(* AuctionForm, MyAuctionsPage                                                 *)

OpensEmpty(f) ==
  /\ form[f] = NoForm
  /\ form' = [form EXCEPT ![f].for = "create", ![f].step = "open"]
  /\ StorageStays /\ HistoryStays /\ UNCHANGED <<item, lapses>>

(* The form of an edit starts from the auction as it is then, its image        *)
(* included; the card's menu offers it, and to delete, whatever was bid.       *)
OpensFor(f, a, for) ==
  /\ form[f] = NoForm /\ item[a].on \in {"listed", "bid"}
  /\ form' = [form EXCEPT ![f] =
       [for |-> for, of |-> a, image |-> item[a].image, new |-> FALSE, step |-> "open"]]
  /\ StorageStays /\ HistoryStays /\ UNCHANGED <<item, lapses>>
OpensEdit(f, a) == OpensFor(f, a, "edit")
AsksToDelete(f, a) == OpensFor(f, a, "delete")

(* handleSubmit: a new auction needs an image, an edit without a new one sends *)
(* the one it started from; the dialogue is confirmed.                         *)
Goes(f, for, step) ==
  /\ form[f].step = "open" /\ form[f].for \in for
  /\ Steps(f, step)
  /\ StorageStays /\ HistoryStays /\ UNCHANGED <<item, lapses>>
SubmitsImage(f) == Goes(f, {"create", "edit"}, "uploading")
SubmitsAsItIs(f) == Goes(f, {"edit"}, "sending")
Confirms(f) == Goes(f, {"delete"}, "sending")

-----------------------------------------------------------------------------
(* UploadService                                                               *)

(* Every upload has a name of its own.                                         *)
NewImage == uploads + 1
UploadServed(f) ==
  /\ form[f].step = "uploading"
  /\ \/ /\ uploads < MaxUploads
        /\ uploads' = uploads + 1
        /\ stored' = stored \cup {NewImage}
        /\ form' = [form EXCEPT ![f].image = NewImage, ![f].new = TRUE, ![f].step = "uploaded"]
     \/ Steps(f, "unfit") /\ StorageStays   \* too large, or no image
  /\ HistoryStays /\ UNCHANGED <<item, lapses>>

(* Without the URL of the image there is nothing to remove.                    *)
UploadLost(f) ==
  /\ form[f].step \in {"uploading", "uploaded"} /\ Lapse
  /\ Steps(f, "over")
  /\ astray' = IF form[f].step = "uploaded" THEN astray \cup {form[f].image} ELSE astray
  /\ StorageStays /\ UNCHANGED <<item, replaced>>
UploadAnswered(f) ==
  /\ form[f].step \in {"uploaded", "unfit"}
  /\ Steps(f, IF form[f].step = "uploaded" THEN "sending" ELSE "over")
  /\ StorageStays /\ HistoryStays /\ UNCHANGED <<item, lapses>>

(* deleteImage: only what the user has uploaded; a failure is not told.        *)
RemoveServed(f) ==
  /\ form[f].step = "removing"
  /\ Steps(f, "over")
  /\ \/ stored' = stored \ {form[f].image} /\ UNCHANGED <<lapses, astray>>
     \/ Lapse /\ astray' = astray \cup {form[f].image} /\ UNCHANGED stored
  /\ UNCHANGED <<item, uploads, replaced>>

-----------------------------------------------------------------------------
(* createAuction, patchAuction, deleteAuction                                  *)

Creates(f) ==
  /\ form[f].for = "create"
  /\ item' = [item EXCEPT ![form[f].image].on = "listed"]
  /\ UNCHANGED replaced

(* The form of an edit always sends the start price, which bids forbid.        *)
Edits(f) ==
  /\ form[f].for = "edit" /\ item[form[f].of].on = "listed"
  /\ item' = [item EXCEPT ![form[f].of].image = form[f].image]
  /\ replaced' = replaced \cup ({item[form[f].of].image} \ {form[f].image})

Deletes(f) ==
  /\ form[f].for = "delete" /\ item[form[f].of].on = "listed"
  /\ item' = [item EXCEPT ![form[f].of].on = "gone"]
  /\ replaced' = replaced \cup {item[form[f].of].image}

SendServed(f) ==
  /\ form[f].step = "sending"
  /\ Creates(f) \/ Edits(f) \/ Deletes(f)
  /\ Steps(f, "accepted")
  /\ StorageStays /\ UNCHANGED <<lapses, astray>>

(* Bids or a close came first, or values the form lets pass are none to the    *)
(* server.                                                                     *)
SendRefused(f) ==
  /\ form[f].step = "sending"
  /\ Steps(f, "refused")
  /\ StorageStays /\ HistoryStays /\ UNCHANGED <<item, lapses>>

(* The pages' catch: whatever went wrong, an image just uploaded is removed.   *)
Afterwards_Always(f) == IF form[f].new THEN "removing" ELSE "over"   \* bug: finally for catch
Afterwards(f) ==
  IF form[f].new /\ form[f].step # "accepted" THEN "removing" ELSE "over"
SendAnswered(f) ==
  /\ form[f].step \in {"accepted", "refused"}
  /\ Steps(f, Afterwards(f))
  /\ StorageStays /\ HistoryStays /\ UNCHANGED <<item, lapses>>
SendLost(f) ==
  /\ form[f].step \in {"sending", "accepted", "refused"} /\ Lapse
  /\ Steps(f, IF form[f].new THEN "removing" ELSE "over")
  /\ astray' = IF form[f].new /\ form[f].step = "accepted"
               THEN astray \cup {form[f].image} ELSE astray
  /\ StorageStays /\ UNCHANGED <<item, replaced>>

(* A call to remove the image that is lost is not made again.                  *)
RemoveLost(f) ==
  /\ form[f].step = "removing" /\ Lapse
  /\ Steps(f, "over")
  /\ astray' = astray \cup {form[f].image}
  /\ StorageStays /\ UNCHANGED <<item, replaced>>

(* Somebody bids.                                                              *)
IsBidFor(a) ==
  /\ item[a].on = "listed"
  /\ item' = [item EXCEPT ![a].on = "bid"]
  /\ StorageStays /\ HistoryStays /\ UNCHANGED <<form, lapses>>

ListingNext ==
  \/ \E f \in Forms :
       \/ OpensEmpty(f) \/ \E a \in Images : OpensEdit(f, a) \/ AsksToDelete(f, a)
       \/ SubmitsImage(f) \/ SubmitsAsItIs(f) \/ Confirms(f)
       \/ UploadServed(f) \/ UploadLost(f) \/ UploadAnswered(f)
       \/ SendServed(f) \/ SendRefused(f) \/ SendLost(f) \/ SendAnswered(f) \/ RemoveServed(f) \/ RemoveLost(f)
  \/ \E a \in Images : IsBidFor(a)

ListingSpec == ListingInit /\ [][ListingNext]_listingVars

-----------------------------------------------------------------------------
(* Properties *)

FormSteps == {"none", "open", "uploading", "uploaded", "unfit", "sending", "accepted",
              "refused", "removing", "over"}
(* Of the images two forms have uploaded neither is the other's.               *)
ListingTypeOK ==
  /\ stored \cup replaced \cup astray \subseteq Images
  /\ item \in [Images -> [on : {"absent", "listed", "bid", "gone"}, image : Images]]
  /\ form \in [Forms -> [for : {"none", "create", "edit", "delete"}, of : Images,
                         image : Images, new : BOOLEAN, step : FormSteps]]
  /\ uploads \in 0 .. MaxUploads /\ lapses \in 0 .. MaxLapses
  /\ \A f, g \in Forms : f # g /\ form[f].new /\ form[g].new => form[f].image # form[g].image

(* The image an auction shows is in the storage, however forms and dialogues   *)
(* cross, unless the answer to the call that set it was lost: the form takes   *)
(* that for a failure and removes it.                                          *)
ListedHasImage ==
  \A a \in Images : item[a].on \in {"listed", "bid"} => item[a].image \in stored \cup astray

(* An image in the storage is shown, or on its way to be, or was replaced or   *)
(* given up with its auction, or a lost call left it behind.                   *)
OnItsWay ==
  {form[f].image : f \in {g \in Forms : form[g].new /\ form[g].step # "over"}}
OrphansHaveReasons ==
  \A i \in stored :
    \/ \E a \in Images : item[a].on \in {"listed", "bid"} /\ item[a].image = i
    \/ i \in OnItsWay \cup replaced \cup astray

(* The storage and the auctions agree, both ways.                              *)
ImagesAreTracked == ListedHasImage /\ OrphansHaveReasons
=============================================================================
