------------------------------- MODULE Lists -------------------------------
(* The stars, the lists that come a page at a time, and the settings of a    *)
(* directory with the search for users, side by side: each is a store or a   *)
(* page of its own.                                                         *)
EXTENDS Favorites, ListPages, Members

\* The types of all three: whatever is clicked, answered or refused, each holds what its
\* store or its hooks declare (favoritesStore.ts, the pages with lists,
\* SharedSettingsPage.tsx, FolderSettingsPage.tsx and UserSearch.tsx).
BothTypeOK == TypeOK /\ ListTypeOK /\ MembersTypeOK
=============================================================================
