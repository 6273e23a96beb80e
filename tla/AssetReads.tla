------------------------------ MODULE AssetReads ------------------------------
(***************************************************************************)
(* Reading assets while they are being made: a page asks for an asset and  *)
(* gets its row and its latest snapshot, which are two queries; with what  *)
(* it was shown it asks for the snapshots, opens one, or starts a job,     *)
(* whose worker finds the object again by a key it computes itself.        *)
(***************************************************************************)
EXTENDS DataAssetIntake

CONSTANT NoSnapshot

ASSUME AssetReadsAssumption == NoSnapshot \notin Uploads

VARIABLES
    assetRows,  \* rows a request has read and whose snapshots it has not: asset -> status
    shownAsset, \* the last asset a page was shown: its row and its latest snapshot
    readResult  \* what became of the snapshot it was shown with

assetReadVars == <<assetRows, shownAsset, readResult>>
assetReadsVars == <<dataAssetVars, assetReadVars>>

NoRows == [a \in {} |-> "none"]
NotShown == [asset |-> NoAsset, status |-> "none", latest |-> NoSnapshot]

AssetReadsInit ==
    /\ DataAssetInit
    /\ assetRows = NoRows /\ shownAsset = NotShown /\ readResult = "none"

Latest(a) == IF snapshots[a] = <<>> THEN NoSnapshot ELSE Last(snapshots[a])
AssetsThere == {a \in Uploads : assetStatus[a] # "none"}

-----------------------------------------------------------------------------
\* getDataAsset, first query (readAsset); its errors change nothing.
ReadAsset(a) ==
    /\ assetRows = NoRows
    /\ a \in AssetsThere
    /\ assetRows' = [b \in {a} |-> assetStatus[b]]
    /\ UNCHANGED <<shownAsset, readResult>>

\* listDataAssets, first query: all rows at once. Their snapshots are read one by one.
ReadAssets ==
    /\ assetRows = NoRows
    /\ assetRows' = [a \in AssetsThere |-> assetStatus[a]]
    /\ UNCHANGED <<shownAsset, readResult>>

\* toPublicDataAsset: the row as it was, the latest snapshot as it is.
ShowAsset(a) ==
    /\ a \in DOMAIN assetRows
    /\ shownAsset' = [asset |-> a, status |-> assetRows[a], latest |-> Latest(a)]
    /\ assetRows' = Restrict(assetRows, DOMAIN assetRows \ {a})
    /\ readResult' = "none"

\* Requests with the identifiers of the page.
Shows == shownAsset.latest # NoSnapshot /\ readResult = "none"
Ends(result) == readResult' = result /\ UNCHANGED <<assetRows, shownAsset>>

\* listDataSnapshots: the asset's status, and then its snapshots; none unless it is ready.
ListSnapshots ==
    /\ Shows
    /\ LET listed == IF assetStatus[shownAsset.asset] = "ready"
                     THEN ToSet(snapshots[shownAsset.asset]) ELSE {}
       IN  Ends(IF shownAsset.latest \in listed THEN "found" ELSE "unlisted")

\* getDataSnapshot: no preview unless the asset is ready.
OpenSnapshot ==
    /\ Shows
    /\ Ends(IF assetStatus[shownAsset.asset] # "ready" THEN "unavailable"
            ELSE IF Contains(snapshots[shownAsset.asset], shownAsset.latest) THEN "found"
            ELSE "missing")

-----------------------------------------------------------------------------
(* Keys: conversation, asset and snapshot. A conversation has the name of its upload. *)

\* The conversation an asset is from is that of the upload that created it.
SourceConversation(a) == a

\* keyConversationId: an update keeps its objects under the conversation of the asset.
KeyOf(u) == <<SourceConversation(assetOf[u]), assetOf[u], u>>

\* assertRelations
Related(a, s) == Contains(snapshots[a], s)

\* loadFrozenSnapshot: the key of the row must be the one it computes.
LoadSnapshot ==
    /\ Shows
    /\ LET a == shownAsset.asset
           s == shownAsset.latest
       IN  \/ ~Related(a, s) /\ Ends("unrelated")
           \/ Related(a, s) /\ KeyOf(s) # <<SourceConversation(a), a, s>> /\ Ends("keyInvalid")
           \/ /\ Related(a, s) /\ KeyOf(s) = <<SourceConversation(a), a, s>>
              /\ \/ <<s, "normalized">> \in objects /\ Ends("found")
                 \/ <<s, "normalized">> \notin objects /\ Ends("objectMissing")
                 \/ Ends("readFailed")

AssetReadsNext ==
    \/ DataAssetNext /\ UNCHANGED assetReadVars
    \/ /\ \/ \E a \in Uploads : ReadAsset(a) \/ ShowAsset(a)
          \/ ReadAssets \/ ListSnapshots \/ OpenSnapshot \/ LoadSnapshot
       /\ UNCHANGED dataAssetVars

AssetReadsSpec == AssetReadsInit /\ [][AssetReadsNext]_assetReadsVars

-----------------------------------------------------------------------------
\* What a page shows can be used: an asset shown as ready has a snapshot, one that failed
\* has none, although row and snapshot are read one after the other; and a snapshot that
\* was shown is listed, opened and found in the store, unless the store does not answer
\* (getDataAsset, listDataAssets, listDataSnapshots, getDataSnapshot, loadFrozenSnapshot).
\* Only the object of a snapshot whose worker looked for it before its COMMIT was decided
\* can be missing: it is shown, and the job that reads it fails.
ShownAssetsAreUsable ==
    /\ shownAsset.status = "ready" => shownAsset.latest # NoSnapshot
    /\ shownAsset.status = "failed" => shownAsset.latest = NoSnapshot
    /\ readResult \in {"none", "found", "readFailed", "objectMissing"}
    /\ readResult = "objectMissing" => shownAsset.latest \in overtaken
=============================================================================
