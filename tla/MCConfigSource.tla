---------------------------- MODULE MCConfigSource ----------------------------
(* ConfigSource for TLC.  t1 and t2 are trees, tx one the loader refuses.  z1, *)
(* z2 and zx are their zips, o1 is t1 zipped by another tool and s is sealed.  *)
EXTENDS ConfigSource, TLC

CONSTANTS k1, k2, t1, t2, tx, z1, z2, zx, o1, s, A, B, Padded, x1, x2

MCZip   == t1 :> z1 @@ t2 :> z2 @@ tx :> zx
MCUnzip == z1 :> t1 @@ z2 :> t2 @@ zx :> tx @@ o1 :> t1 @@ s :> None
MCTrim  == [n \in Names |-> IF n = Padded THEN A ELSE n]

Tree(t)    == [kind |-> "tree", is |-> t]
File(e, b) == [kind |-> e, is |-> b]
Group(n, e, us) == [name |-> n, sel |-> e, uses |-> us]
D(b1, b2, gs) == [bundles |-> k1 :> b1 @@ k2 :> b2, groups |-> gs]

D0 == D(Tree(t1), None, {Group(A, x1, {k1})})
D1 == D(Tree(t2), File("nseb", s), {Group(A, x1, {k1}), Group(B, x1, {k2})})
D2 == D(Tree(t1), None, {Group(A, x2, {k1})})
D3 == D(File("zip", o1), None, {Group(A, x1, {k1, k2})})
D4 == D(File("zip", o1), File("zip", zx), {Group(A, x1, {k1})})

MCDirs   == {D0, D1, D2, D3, D4}
MCStarts == {D0, D4}

Load(f) == f @@ [w \in Work |-> 0]

MCManaged == {Load("publish" :> 2 @@ "mishap" :> 1),
              Load("publish" :> 1 @@ "reload" :> 1 @@ "dry" :> 1 @@ "export" :> 1 @@ "mishap" :> 1)}
MCUnmanaged == {Load("publish" :> 1 @@ "import" :> 2 @@ "mishap" :> 1),
                Load("publish" :> 1 @@ "import" :> 1 @@ "edit" :> 1),
                Load("export" :> 1 @@ "edit" :> 2)}
===============================================================================
