---------------------------- MODULE MCPermissions ----------------------------
(* Instances of AssetPermissions for TLC.                                  *)
EXTENDS AssetPermissions

\* A root collection, a collection and a survey, all of one owner.
TreeAssets == {"root", "sub", "form"}
TreeOwner  == [x \in TreeAssets |-> "olga"]
TreeType   == [x \in TreeAssets |-> IF x = "form" THEN "survey" ELSE "collection"]
\* A collection and a survey.
PairAssets == {"root", "form"}
PairOwner  == [x \in PairAssets |-> "olga"]
PairType   == [x \in PairAssets |-> IF x = "form" THEN "survey" ELSE "collection"]

\* Two surveys of one owner, in no collection.
FormAssets == {"form", "copy"}
FormOwner  == [x \in FormAssets |-> "olga"]
FormType   == [x \in FormAssets |-> "survey"]

\* A root collection, and two collections that can be moved into it.
ShelfAssets == {"root", "sub", "copy"}
ShelfOwner  == [x \in ShelfAssets |-> "olga"]
ShelfType   == [x \in ShelfAssets |-> "collection"]

\* A root collection, and two surveys that can be moved into it.
ProjectAssets == {"root", "form", "copy"}
ProjectOwner  == [x \in ProjectAssets |-> "olga"]
ProjectType   == [x \in ProjectAssets |-> IF x = "root" THEN "collection" ELSE "survey"]
=============================================================================
