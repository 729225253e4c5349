----------------------------- MODULE MC_Resolver -----------------------------
(* Two packages that depend on a third one, which may depend on the second.   *)
EXTENDS Resolver

\* Version ranges of an atom.
AnyOf(n) == <<n, {1, 2, 3}>>
Just(n, v) == <<n, {v}>>
One(n) == {<<>>, <<AnyOf(n)>>, <<Just(n, 1)>>, <<Just(n, 2)>>}

Names == {"x", "y", "z"}
NVs   == Names \X {1, 2}
DepsAre(x1, x2, y1, y2, z2) ==
  [nv \in NVs |-> CASE nv = <<"x", 1>> -> x1 [] nv = <<"x", 2>> -> x2
                    [] nv = <<"y", 1>> -> y1 [] nv = <<"y", 2>> -> y2
                    [] nv = <<"z", 1>> -> <<>> [] nv = <<"z", 2>> -> z2]
Installs ==
  {{nv \in NVs : f[nv[1]] = nv[2]} :
     f \in {h \in [Names -> 0 .. 2] : h["x"] < 2 /\ h["z"] < 2}}

RequestOf(avail, inst, deps, args, world, update, deep, retries) ==
  [avail |-> avail, inst |-> inst, deps |-> deps, args |-> args, world |-> world,
   update |-> update, deep |-> deep, retries |-> retries]
\* --update, --deep, --backtrack, and whether an old ebuild is gone.
Options ==
  {<<FALSE, FALSE, 3, NVs>>, <<TRUE, FALSE, 3, NVs>>, <<TRUE, TRUE, 3, NVs>>, <<TRUE, FALSE, 0, NVs>>,
   <<TRUE, FALSE, 3, NVs \ {<<"y", 1>>}>>}

NoRequest == RequestOf({}, {}, [nv \in NVs |-> <<>>], <<>>, <<>>, FALSE, FALSE, 0)
\* Three versions, and more to choose between.
Wide ==
  LET nvs == Names \X (1 .. 3)
  IN  {RequestOf(nvs, {}, [nv \in nvs |-> IF nv[1] = "z" THEN <<>> ELSE d[nv]],
                 <<AnyOf("x"), AnyOf("y")>>, <<>>, TRUE, FALSE, 10) :
         d \in [{"x", "y"} \X (1 .. 3) -> {<<AnyOf("z")>>, <<Just("z", 1)>>, <<Just("z", 2)>>}]}
ResolverRequests ==
  {NoRequest} \cup Wide \cup
  {RequestOf(how[4], inst, DepsAre(<<AnyOf("z")>>, x2, y1, y2, z2), args, <<AnyOf("y")>>,
             how[1], how[2], how[3]) :
     inst \in Installs,
     x2 \in One("z") \ {<<AnyOf("z")>>}, y1 \in One("z"), y2 \in One("z"), z2 \in {<<>>, <<Just("y", 2)>>},
     args \in {<<AnyOf("x")>>, <<AnyOf("x"), AnyOf("y")>>}, how \in Options}
=============================================================================
