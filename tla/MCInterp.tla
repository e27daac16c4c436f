----------------------------- MODULE MCInterp -----------------------------
(* Programs of several kinds: control flow nested two deep in a function, a
   variable used in a module, a function and a function inside it, class bodies
   and callers with a variable of that name, calls with every kind of parameter,
   and assignments to several names. *)
EXTENDS Interp

M(k) == Mark(Num(k))
Guarded(e) == Try(<<Mark(e)>>, <<Handler({"Exception"}, NoName, <<M(8)>>)>>, <<>>, <<>>)

-----------------------------------------------------------------------------
(* Flow *)

Leaf == {M(1), Return(Num(2)), Break, Continue, Raise("E1"), Raise("CancelledError")}

Manager == {Item(1, "ok", "false", NoName), Item(1, "ok", "true", NoName),
            Item(1, "ok", "raise", NoName), Item(1, "raise", "false", NoName)}

Inner ==
  {Try(<<a>>, <<Handler(t, NoName, <<b>>)>>, <<c>>, <<d>>) :
     a \in Leaf, t \in {{"E1"}, {"E2", "Exception"}, {}}, b \in Leaf, c \in {M(3), Break, Raise("E1")},
     d \in {M(4), Return(Num(5)), Continue, Raise("E2")}}
  \cup {Try(<<a>>, <<>>, <<>>, <<d>>) : a \in Leaf, d \in Leaf}
  \cup {With(<<i>>, <<a>>) : i \in Manager, a \in Leaf}
  \cup {With(<<Item(1, "ok", x, "x"), Item(2, y, z, NoName)>>, <<a>>) :
          x \in {"true", "false"}, y \in {"ok", "raise"}, z \in {"true", "raise"}, a \in Leaf}
  \cup {For("x", <<1, 2>>, <<If(Bool("and", Name("x"), More), <<a>>, <<M(6)>>)>>, <<b>>) :
          a \in Leaf, b \in Leaf}
  \cup {While(Bool("or", More, More), <<M(7), a>>, <<b>>) : a \in Leaf, b \in Leaf}

\* What an inner statement is put into, inside a loop.
Around(s) ==
  <<<<s, M(10)>>,
    <<Try(<<s, M(10)>>, <<Handler({"E1"}, NoName, <<M(11)>>)>>, <<M(12)>>, <<M(13)>>)>>,
    <<Try(<<Raise("E2")>>, <<Handler({"E1"}, NoName, <<M(11)>>), Handler({"E2"}, "e", <<s>>)>>,
          <<>>, <<M(13)>>)>>,
    <<Try(<<Return(Num(9))>>, <<>>, <<>>, <<s>>)>>,
    <<With(<<Item(3, "ok", "true", NoName)>>, <<s, M(10)>>), M(14)>>>>

Flow ==
  {<<Def("f", Plain(<<>>), <<For("y", <<1, 2>>, Around(s)[i], <<M(15)>>), Return(Num(16))>>),
     Guarded(Call(Name("f"), <<>>))>> : i \in 1..5, s \in Inner}

-----------------------------------------------------------------------------
(* Scopes *)

Use == {Pass, Assign("x", Num(1)), Mark(Name("x")), Del("x"), Aug("x", Num(1)),
        For("x", <<2>>, <<Pass>>, <<>>), Mark(Comp(Name("x"), "x", <<3, 4>>)),
        Try(<<Raise("E1")>>, <<Handler({"E1"}, "x", <<Pass>>)>>, <<>>, <<>>),
        With(<<Item(5, "ok", "false", "x")>>, <<Mark(Named("x", Num(6)))>>)}

Declare == {<<>>, <<Global("x")>>, <<Nonlocal("x")>>}

Args(params) == [i \in DOMAIN params |-> Num(7)]

\* The function inside is called where it is defined, and again after the
\* function around it has returned it, be it to another one.
Nest(first, params, a, c, b, d) ==
  <<first,
    Def("f", Plain(params), <<a, Def("g", Plain(<<>>), c \o <<b, Mark(Name("x"))>>),
                       Guarded(Call(Name("g"), <<>>)), d, Return(Name("g"))>>),
    Try(<<Assign("h", Call(Name("f"), Args(params))), Mark(Call(Name("h"), <<>>))>>,
        <<Handler({"NameError"}, NoName, <<M(9)>>)>>, <<>>, <<>>),
    Guarded(Name("x"))>>

\* Python takes a nonlocal only for a variable of the function around it.
Scope ==
  {Nest(t[1], t[2], t[3], t[4], t[5], t[6]) : t \in
     {u \in {Assign("x", Num(0)), Pass} \X {<<>>, <<"x">>} \X Use \X Declare \X Use \X Use :
        u[4] = <<Nonlocal("x")>> => u[2] # <<>> \/ "x" \in Bound(<<u[3], u[6]>>)}}

\* A class body, and a caller with a variable of the same name.
Bodies ==
  {<<Assign("x", Num(0)), Class("C", <<a, b>>), Guarded(Name("x")), Guarded(Name("C"))>> :
     a \in Use, b \in Use \cup {Raise("E1")}}
  \cup {<<Assign("x", Num(0)), Def("f", Plain(<<>>), <<a, Guarded(Name("x"))>>),
          Def("g", Plain(<<>>), <<b, Call(Name("f"), <<>>), Def("h", Plain(<<>>), <<c>>), Guarded(Name("x"))>>),
          Guarded(Call(Name("g"), <<>>))>> : a \in Use, b \in Use, c \in Use}

-----------------------------------------------------------------------------
(* Arguments *)

Num0(xs) == [i \in DOMAIN xs |-> Num(i)]
Signatures ==
  {Params(t[1], t[2], t[3], t[4], t[5], t[6]) : t \in
     {<<>>, <<"a">>} \X {<<>>, <<"b">>, <<"b", "x">>} \X {<<>>, <<M(20)>>} \X {NoName, "r"}
       \X {<<>>, <<<<"k", <<>>>>>>, <<<<"k", <<M(21)>>>>>>} \X {NoName, "m"}}

\* A call of each shape: every name a function could have, twice or not at all.
Calls ==
  {CallKw(Name("f"), args, kw) :
     args \in {<<>>, <<Num(1)>>, <<M(1), Num(2)>>, <<Num(1), Starred(Tuple(<<Num(2), Num(3)>>))>>},
     kw \in {<<>>, <<<<"a", Num(4)>>>>, <<<<"b", Num(4)>>, <<"k", Num(5)>>>>,
              <<<<"k", M(5)>>>>, <<<<"x", Num(6)>>, <<"z", Num(7)>>>>, <<<<"value", Num(7)>>>>}}

\* With and without a function inside, which makes the parameters cells.
Arguments ==
  {<<Assign("x", Num(0)),
     Def("f", d, inside \o <<Mark(Tuple([i \in DOMAIN SetToSeq(ParamNames(d)) |->
                                          Name(SetToSeq(ParamNames(d))[i])])), Mark(Name("x"))>>),
     Try(<<c>>, <<Handler({"TypeError"}, NoName, <<M(8)>>)>>, <<>>, <<>>)>> :
     d \in {s \in Signatures : Len(s.defaults) <= Len(s.posonly) + Len(s.args)}, c \in Calls,
     inside \in {<<>>, <<Def("g", Plain(<<>>), <<Pass>>)>>}}

Targets == {<<Target("a", FALSE)>>, <<Target("a", FALSE), Target("b", FALSE)>>,
            <<Target("a", TRUE), Target("b", FALSE)>>,
            <<Target("a", FALSE), Target("b", TRUE), Target("a", FALSE)>>}
Unpacks ==
  {<<Try(<<Unpack(t, e)>>, <<Handler({"ValueError", "TypeError"}, "v", <<Mark(Name("v"))>>)>>,
         <<>>, <<>>), Guarded(Tuple(<<Name("a"), Name("b")>>))>> :
     t \in Targets, e \in {Num(1)} \cup {Tuple(Num0([i \in 1..k |-> i])) : k \in 0..4}}

MCPrograms == {Flow, Scope, Bodies, Arguments, Unpacks}
=============================================================================
