----------------------------- MODULE MCLinkEdit -----------------------------
(***************************************************************************)
(* Links of three atoms of two object files: two of any kind and one that  *)
(* refers to one of them by symbol index, through a non-lazy pointer in a  *)
(* dylib or a kext and through a relocation in an object file.             *)
(***************************************************************************)
EXTENDS LinkEdit

Base == [name |-> 0, sect |-> "code", scope |-> "global", incl |-> "in", def |-> "regular",
         byName |-> FALSE, autoHide |-> FALSE, altEntry |-> FALSE, alias |-> FALSE,
         empty |-> FALSE, thumb |-> FALSE, branch |-> FALSE, tlv |-> FALSE,
         file |-> 0, ref |-> 0]

Local == {[Base EXCEPT !.sect = sect, !.scope = scop] :
            sect \in {"code", "data"}, scop \in {"translationUnit", "linkageUnit"}}
Exported == {Base, [Base EXCEPT !.byName = TRUE, !.sect = "data"]}
Unlisted == {[Base EXCEPT !.scope = "linkageUnit", !.incl = "inWithRandomAutoStripLabel"],
             [Base EXCEPT !.scope = "translationUnit", !.sect = "cstring", !.incl = "notIn"],
             [Base EXCEPT !.scope = "translationUnit", !.sect = "CFI", !.incl = "notInFinalLinkedImages"],
             [Base EXCEPT !.def = "absolute"], [Base EXCEPT !.empty = TRUE],
             [Base EXCEPT !.scope = "translationUnit", !.sect = "llvm"]}
Proxy == [Base EXCEPT !.sect = "proxies", !.def = "proxy", !.scope = "linkageUnit"]

ImageKinds == Local \cup Exported \cup Unlisted \cup
  {[Base EXCEPT !.autoHide = TRUE, !.byName = TRUE, !.sect = "data"],
   [Base EXCEPT !.scope = "linkageUnit", !.incl = "inAndNeverStrip"],
   Proxy, [Proxy EXCEPT !.scope = "global"], [Proxy EXCEPT !.scope = "global", !.alias = TRUE]}
ObjectKinds == Local \cup Exported \cup Unlisted \cup
  {[Base EXCEPT !.def = "tentative", !.sect = "data"], [Base EXCEPT !.altEntry = TRUE],
   [Base EXCEPT !.sect = "tempAlias", !.alias = TRUE, !.empty = TRUE], Proxy,
   [Base EXCEPT !.sect = "data", !.scope = "translationUnit", !.tlv = TRUE]}

\* An import has no object file, the others come from the file given.
Placed3(x, f, n) == [x EXCEPT !.name = n, !.file = IF x.def = "proxy" THEN 0 ELSE f]
Named(x, y, z, r) ==
  <<Placed3(x, 2, 3), Placed3(y, 1, 1), [Placed3(z, 2, 2) EXCEPT !.ref = r]>>
Pointer == [Base EXCEPT !.sect = "nonLazyPointer", !.scope = "translationUnit", !.incl = "notIn"]
Caller == [Base EXCEPT !.scope = "translationUnit"]
ThumbCaller == [Caller EXCEPT !.thumb = TRUE, !.branch = TRUE]
\* Code without a label.
Anon == [Base EXCEPT !.scope = "translationUnit", !.incl = "notIn"]

Dwarf(t) == [debug |-> "dwarf", tu |-> t, flat |-> FALSE, stabs |-> <<>>]
Stabs == [debug |-> "stabs", tu |-> 0, flat |-> FALSE,
          stabs |-> <<Stab("SO", 0), Stab("FUN", 1), Stab("STSYM", 3)>>]
FileSets == {<<Dwarf(1), Dwarf(2)>>, <<Dwarf(1), [Dwarf(2) EXCEPT !.flat = TRUE]>>,
             <<Dwarf(1), Stabs>>}

Opts(debug, keep, eh, pe, arch) ==
  [debug |-> debug, keep |-> keep, exportList |-> {1}, dylib |-> TRUE, removeEHLabels |-> eh,
   keepPrivateExterns |-> pe, makeTentativeDefinitionsReal |-> ~pe, compressed |-> pe,
   arch |-> arch, kext |-> FALSE]
Keeps == {{1, 2, 3}, {}}

DylibLinks ==
  {[object |-> FALSE, opts |-> Opts(TRUE, k, FALSE, pe, "x86_64"), files |-> fs,
    atoms |-> Named(x, y, Pointer, r)] :
     k \in Keeps, pe \in BOOLEAN, fs \in FileSets, x \in ImageKinds, y \in ImageKinds, r \in {1, 2}}
KextLinks ==
  {[object |-> FALSE, opts |-> [Opts(TRUE, {1, 2, 3}, FALSE, pe, "x86_64") EXCEPT !.dylib = FALSE,
                                                                              !.kext = TRUE],
    files |-> <<Dwarf(1), Dwarf(2)>>, atoms |-> Named(x, y, Pointer, r)] :
     pe \in BOOLEAN, x \in ImageKinds, y \in ImageKinds, r \in {1, 2}}
ObjectOf(d, k, eh, arch, x, y, z) ==
  [object |-> TRUE, opts |-> [Opts(d, k, eh, eh, arch) EXCEPT !.dylib = FALSE],
   files |-> <<Dwarf(1), Stabs>>, atoms |-> Named(x, y, z, 1)]
ObjectLinks ==
  {ObjectOf(d, k, eh, arch, x, y, z) :
     d \in BOOLEAN, k \in Keeps, eh \in BOOLEAN, arch \in {"x86_64", "i386"},
     x \in ObjectKinds, y \in ObjectKinds, z \in {Caller, Pointer}}
\* Thumb code that branches to ARM code with a label, or out of the file.
ArmLinks ==
  {ObjectOf(FALSE, k, eh, "arm", x, y, z) :
     k \in Keeps, eh \in BOOLEAN, x \in {t \in ObjectKinds : t.sect \in {"code", "proxies"}},
     y \in ObjectKinds, z \in {Caller, ThumbCaller}}
\* Thumb code that branches to ARM code without a label.
BranchLinks ==
  {ObjectOf(d, k, eh, "arm", Anon, y, ThumbCaller) :
     d \in BOOLEAN, k \in Keeps, eh \in BOOLEAN, y \in Local}

MixedLinks == DylibLinks \cup KextLinks \cup ObjectLinks \cup ArmLinks \cup BranchLinks

\* A dylib linked with -x.
StripLinks ==
  {[object |-> FALSE, opts |-> Opts(TRUE, {}, FALSE, TRUE, "x86_64"), files |-> <<Dwarf(1), Dwarf(2)>>,
    atoms |-> Named(x, y, Pointer, 1)] : x \in Exported, y \in Local}
=============================================================================
