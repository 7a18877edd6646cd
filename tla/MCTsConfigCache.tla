-------------------------- MODULE MCTsConfigCache --------------------------
(***************************************************************************)
(* TsConfigCache for TLC: root and pkg are tsconfig.json files in a folder *)
(* and its subfolder, base is tsconfig.base.json beside root.              *)
(***************************************************************************)
EXTENDS TsConfigCache

CONSTANTS f, g, root, pkg, base

MCAbove == [x \in {f, g} |-> IF x = g THEN {root, pkg, base} ELSE {root, base}]

Plain(t, files, refs) == [include |-> files, refs |-> refs, base |-> t]

\* root and pkg may reference each other; root may extend base.
MCContents ==
  [t \in {root, pkg, base} |->
     CASE t = root -> {Plain(root, {}, {pkg}), [include |-> {}, refs |-> {pkg}, base |-> base]}
       [] t = pkg  -> {Plain(pkg, {g}, {root, base})}
       [] t = base -> {Plain(base, {f, g}, {})}]

MCSettings == {[property |-> {}, limit |-> 3], [property |-> {root}, limit |-> 0]}
=============================================================================
