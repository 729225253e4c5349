------------------------------ MODULE MC_Dblink ------------------------------
\* Two packages in two versions each, and a package that blocks one of them.
EXTENDS Dblink, TLC
DbPkgs   == {"foo1", "foo2", "bar1", "bar2", "compat"}
DbSlots  == "foo1" :> "foo" @@ "foo2" :> "foo" @@ "bar1" :> "bar" @@ "bar2" :> "bar" @@ "compat" :> "compat"
DbBlocks == [p \in DbPkgs |-> IF p = "compat" THEN {"foo1"} ELSE {}]
DbOlder  == [p \in DbPkgs |-> IF p = "foo2" THEN {"foo1"} ELSE {}]
DbImage  == "foo1" :> ("etc" :> 10 @@ "lib1" :> 11 @@ "doc" :> 12) @@ "foo2" :> ("etc" :> 20 @@ "lib2" :> 21)
            @@ "bar1" :> ("exe" :> 31) @@ "bar2" :> ("exe" :> 32 @@ "doc" :> 33) @@ "compat" :> ("lib1" :> 41)
\* bar2 brings the library that bar1 has kept alive.
TakingImage == [DbImage EXCEPT !["bar2"] = "exe" :> 32 @@ "lib1" :> 42]
DbNeeds  == [c \in 10 .. 50 |-> CASE c = 31 -> {"lib1"} [] c = 32 -> {"lib2"} [] OTHER -> {}]
Serial   == {"preserve-libs", "protect-owned", "unmerge-orphans", "config-protect-if-modified"}
Parallel == Serial \cup {"parallel-install"}
NoEvents == [s \in FeatureSets |-> 0]
JustSerial == {Serial}
\* The administrator meddles, and merges die, without parallel-install.
DbEvents == [s \in FeatureSets |-> IF s = Serial THEN 1 ELSE 0]
=============================================================================
