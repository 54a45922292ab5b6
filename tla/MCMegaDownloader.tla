--------------------------- MODULE MCMegaDownloader ---------------------------
(* Instances for TLC. Transfers are named by numbers: folders, files asked    *)
(* for and files in folders.                                                  *)
EXTENDS MegaDownloader, TLC

CONSTANTS u, d, e

UploadAndDownload == {u, d}
TwoDownloads == {d, e}
FirstUpload == {u}
NoUpload == {}

OneFolder == {1}
TwoFolders == {1, 2}
OneFile == {3}
NoFile == {}
OneInside == {4}

FolderAndFile == 1 :> d @@ 3 :> u
FolderEach == 1 :> d @@ 2 :> e
InFirst == 4 :> 1
=============================================================================
