----------------------------- MODULE NameBounds -----------------------------
(***************************************************************************)
(* How a name a client chose is cut to the column that keeps it (bounds.py *)
(* and the upload_to callables of models.py).  A name is the number of     *)
(* characters of its stem and of its extension, the dot included; a text   *)
(* that has lost its extension has ext = 0.                                *)
(***************************************************************************)
EXTENDS Integers

NoLimit == -1

Name == [stem : Nat, ext : Nat]
Size(name) == name.stem + name.ext

\* `fit`: a text cut to `limit` characters, the last of them the mark.
Fit(limit, size) == IF limit = NoLimit \/ size <= limit THEN size ELSE limit

\* The extension survives whenever a marked character of stem fits beside it.
KeepsExtension(limit, name) == name.ext <= limit - 2

\* `fit_filename`: the stem is cut (the mark counts for one of its
\* characters); an extension longer than the budget is cut with the rest.
FitFilename(limit, name) ==
    IF limit = NoLimit \/ Size(name) <= limit THEN name
    ELSE IF KeepsExtension(limit, name)
         THEN [stem |-> limit - name.ext, ext |-> name.ext]
         ELSE [stem |-> Fit(limit, Size(name)), ext |-> 0]

\* `fit_stored_name` behind the callables `*_upload_path`: the prefix,
\* <type>/<hash>/ with the private or protected directory before it, is never
\* cut; a column without room for it raises.
NoRoom(prefix, limit) == limit # NoLimit /\ limit - prefix <= 0

FitStoredName(prefix, limit, name) ==
    IF limit = NoLimit THEN name ELSE FitFilename(limit - prefix, name)
=============================================================================
