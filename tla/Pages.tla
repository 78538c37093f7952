------------------------------- MODULE Pages -------------------------------
(* The pages of a directory, of a share link and of a file, and the dialog   *)
(* with the links, side by side: the user is on one of them at a time.      *)
EXTENDS DirectoryPage, SharedViews, FileView, ShareDialog

\* The types of all four: whatever is clicked, answered or refused, the store of each
\* page holds what its hooks declare (DirectoryPage.tsx, SharePage.tsx with
\* SharedDirectoryPage.tsx, FileViewPage.tsx and ShareLinkModal.tsx).
PagesTypeOK == TypeOK /\ ViewTypeOK /\ FileTypeOK /\ ShareTypeOK
=============================================================================
