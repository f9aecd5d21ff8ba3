----------------------------- MODULE MCInstall ------------------------------
(* A small instance of Install for TLC, and what a script means.           *)
EXTENDS Install

-----------------------------------------------------------------------------
(* The meaning of an expression, given the results t of the functions that *)
(* act on the device: its value v and the results not used.  Arguments are *)
(* evaluated in order, once, and nothing after the first NULL.             *)

RECURSIVE Ref(_, _), Args(_, _, _)

\* Values of the arguments named by the sequence order.
Args(e, order, t) ==
    IF order = <<>> THEN [vals |-> <<>>, t |-> t]
    ELSE LET x == Ref(e.args[Head(order)], t)
             any == e.fn = "sha1_check" \/ (e.fn = "apply_patch" /\ Head(order) > 4)
             bad == x.v = Null \/ (x.v.type # "string" /\ ~any)
             rest == Args(e, Tail(order), x.t)
         IN  IF bad THEN [vals |-> <<Null>>, t |-> x.t]
             ELSE [vals |-> <<x.v>> \o rest.vals, t |-> rest.t]

\* The next result, or one that no script can end with.
Result(t) == IF t = <<>> THEN [v |-> None, t |-> <<None>>] ELSE [v |-> Head(t), t |-> Tail(t)]

Truth(b) == StringValue(IF b THEN True ELSE False)

\* The number that s is the text of, if it is one: for some a and b blanks up
\* to a, a sign up to b and behind it digits with their weights.
Ints(s) ==
    LET n == Len(s)
        digit(i) == {d \in 0..9 : ToString(d) = s[i]}
        splits == {ab \in (0..n) \X (0..(n - 1)) :
                      /\ ab[2] \in {ab[1], ab[1] + 1}
                      /\ \A i \in 1..ab[1] : s[i] \in {" ", "\n"}
                      /\ \A i \in (ab[1] + 1)..ab[2] : s[i] \in {"-", "+"}
                      /\ \A i \in (ab[2] + 1)..n : digit(i) # {}}
        weight(i) == (CHOOSE d \in digit(i) : TRUE) * 10^(n - i)
    IN  {MapThenSumSet(weight, (ab[2] + 1)..n)
             * (IF ab[2] > ab[1] /\ s[ab[2]] = "-" THEN -1 ELSE 1) : ab \in splits}

Pure(fn, s) ==
    CASE fn = "concat" -> StringValue(FlattenSeq(s))
      [] fn = "sleep" -> StringValue(s[1])
      [] fn = "stdout" -> StringValue(False)
      [] fn = "!" -> Truth(s[1] = False)
      [] fn = "is_substring" -> Truth(\E a, b \in 0..Len(s[2]) :
                                          SubSeq(s[2], a + 1, b) = s[1])
      [] fn = "==" -> Truth(s[1] = s[2])
      [] fn = "!=" -> Truth(s[1] # s[2])
      [] fn \in {"less_than_int", "greater_than_int"} ->
             Truth(\E l \in Ints(s[1]), r \in Ints(s[2]) : l < r)

Ref(e, t) ==
    LET n == Len(e.args)
        reads == IF e.fn \in DOMAIN Fixed THEN Fixed[e.fn] ELSE n
        order == IF e.fn = "greater_than_int" THEN <<2, 1>> ELSE [i \in 1..reads |-> i]
        null(u) == [v |-> Null, t |-> u]
        one == Args(e, <<1>>, t)
        test == one.vals[1]
        four == Args(e, <<1, 2, 3, 4>>, t)
        all == Args(e, order, t)
        failed == Len(all.vals) < reads \/ \E i \in DOMAIN all.vals : all.vals[i] = Null
    IN
    CASE e.fn = "literal" -> [v |-> StringValue(e.text), t |-> t]
      [] e.fn = ";" -> LET l == Ref(e.args[1], t)
                       IN  IF l.v = Null THEN l ELSE Ref(e.args[2], l.t)
      [] e.fn \in {"&&", "||"} ->
             IF test = Null \/ (test.s = False) = (e.fn = "&&")
             THEN [v |-> test, t |-> one.t] ELSE Ref(e.args[2], one.t)
      [] e.fn = "ifelse" ->
             IF n \notin {2, 3} THEN null(t)
             ELSE IF test = Null THEN null(one.t)
             ELSE IF test.s # False THEN Ref(e.args[2], one.t)
             ELSE IF n = 3 THEN Ref(e.args[3], one.t)
             ELSE [v |-> test, t |-> one.t]
      [] e.fn = "abort" -> null(IF n = 0 THEN t ELSE one.t)
      [] e.fn = "assert" ->
             IF n = 0 THEN [v |-> StringValue(False), t |-> t]
             ELSE IF test = Null \/ test.s = False THEN null(one.t)
             ELSE Ref([e EXCEPT !.args = Tail(@)], one.t)
      [] e.fn \in DOMAIN Arity ->
             IF n \notin Arity[e.fn] THEN Result(t)
             ELSE IF e.fn = "apply_patch" /\ Len(four.vals) = 4 /\ four.vals[4] # Null
                     /\ \A k \in 1..Len(four.vals[4].s) : Ints(SubSeq(four.vals[4].s, 1, k)) = {}
             THEN Result(four.t)
             ELSE IF failed THEN null(all.t)
             ELSE Result(all.t)
      [] e.fn \in {"less_than_int", "greater_than_int"} /\ n # 2 -> null(t)
      [] OTHER -> IF failed THEN null(all.t)
                  ELSE [v |-> Pure(e.fn, [i \in DOMAIN all.vals |-> all.vals[i].s]), t |-> all.t]

(* The evaluation of a script, step by step with the errors and the early  *)
(* returns of edify/expr.c, ends with the value the script means, having   *)
(* called the functions that act on the device in the order it says, each  *)
(* once, and none after an abort.                                          *)
Agree ==
    (binary = "updater" /\ cpc # "none" /\ stack = <<>> /\ ret # None) =>
        Ref(package.script, trace) = [v |-> ret, t |-> <<>>]

-----------------------------------------------------------------------------
(* Scripts.  A character stands for a name; S is the mount point of the    *)
(* system partition, T a directory of the ramdisk.                         *)

L(s) == [fn |-> "literal", args |-> <<>>, text |-> s]
F(fn, args) == [fn |-> fn, args |-> args, text |-> <<>>]
W(c) == L(<<c>>)
P(s) == L(s)
N(name) ==
    L(CASE name = "0755" -> <<"0", "7", "5", "5">> [] name = "0x1a4" -> <<"0", "x", "1", "a", "4">>
        [] name = "10" -> <<"1", "0">> [] name = "-12" -> <<"-", "1", "2">>
        [] name = " 3" -> <<" ", "3">> [] name = "08" -> <<"0", "8">>
        [] name = "1a" -> <<"1", "a">>)
Then(a, b) == F(";", <<a, b>>)

SA == <<"S", "/", "a">>
SD == <<"S", "/", "d">>
SO == <<"S", "/", "o">>
SL == <<"S", "/", "l">>
TB == <<"T", "/", "b">>
TP == <<"T", "/", "p">>
TD == <<"T", "/", "d">>
TE == <<"T", "/", "e">>

MountS == F("mount", <<W("yaffs2"), W("MTD"), W("sys"), W("S")>>)

\* A full update: what a release package does.
Full == Then(F("assert", <<MountS>>),
        Then(F("show_progress", <<W("1"), W("2")>>),
        Then(F("ui_print", <<L(<<"a", "\n">>), W("b")>>),
        Then(F("delete_recursive", <<P(SD), P(SO)>>),
        Then(F("assert", <<F("package_extract_dir", <<W("s"), W("S")>>)>>),
        Then(F("symlink", <<P(SA), P(SL)>>),
        Then(F("set_perm_recursive", <<W("1"), W("2"), N("0755"), N("0x1a4"), W("S")>>),
             F("unmount", <<W("S")>>))))))))

\* An incremental one.
Patch == Then(F("||", <<F("is_mounted", <<W("S")>>), MountS>>),
         Then(F("assert", <<F("apply_patch_space", <<W("1")>>),
                            F("apply_patch_check", <<P(SO), W("new"), W("old")>>)>>),
         Then(F("&&", <<F("apply_patch", <<P(SO), P(SO), W("new"), W("1"), W("old"),
                                           F("package_extract_file", <<W("x")>>)>>),
                        F("set_progress", <<W("1")>>)>>),
              F("set_perm", <<W("1"), W("2"), W("5"), P(SO), P(SL)>>))))

\* A kernel.
Kernel == Then(F("package_extract_file", <<W("x"), P(TB)>>),
          Then(F("assert", <<F("sha1_check", <<F("read_file", <<P(TB)>>), W("img")>>)>>),
          Then(F("ifelse", <<F("write_raw_image", <<P(TB), W("boot")>>),
                             F("delete", <<P(TB), P(TB)>>),
                             F("abort", <<F("concat", <<W("a"), W("b")>>)>>)>>),
               F("run_program", <<W("sh")>>))))

\* The same result by other means: tests, comparisons, an empty format.
Tests == Then(F("assert", <<F("==", <<F("getprop", <<W("k")>>), W("v")>>),
                            F("!", <<F("!=", <<W("a"), W("a")>>)>>),
                            F("is_substring", <<W("a"), L(<<"b", "a">>)>>),
                            F("less_than_int", <<W("9"), N("10")>>)>>),
         Then(F("ifelse", <<F("greater_than_int", <<F("run_program", <<W("sh")>>),
                                                    F("delete", <<P(TE)>>)>>),
                            F("abort", <<>>)>>),
         Then(F("stdout", <<F("file_getprop", <<P(TP), W("k")>>)>>),
         Then(F("sleep", <<W("1")>>),
              F("format", <<W("ext4"), W("EMMC"), W("S")>>)))))

\* Errors, and aborts within arguments.
AbortE == F("abort", <<>>)
Errors ==
    {F("delete", <<P(TB), F("abort", <<W("a")>>)>>),
     F("apply_patch_check", <<P(SO), AbortE>>),
     F("apply_patch", <<P(SO), P(SO), W("new"), W("1"), W("old"), AbortE>>),
     F("apply_patch", <<P(SO), P(SO), W("new"), W("1"), W("old"), W("x")>>),
     F("apply_patch", <<P(SO), P(SO), W("new"), W("a"), F("delete", <<P(TE)>>), W("x")>>),
     F("apply_patch_space", <<W("a")>>), F("apply_patch_space", <<>>),
     F("write_raw_image", <<P(TP)>>), F("is_substring", <<W("a"), W("b"), AbortE>>),
     F("format", <<W("vfat"), W("EMMC"), W("S")>>),
     F("format", <<W("ext3"), W("EMMC"), W("x")>>),
     F("format", <<L(<<>>), W("EMMC"), W("x")>>),
     F("mount", <<W("S")>>),
     F("mount", <<L(<<>>), W("MTD"), W("sys"), W("S")>>),
     Then(MountS, MountS),
     F("unmount", <<L(<<>>)>>), F("unmount", <<W("S")>>), F("is_mounted", <<L(<<>>)>>),
     F("concat", <<F("read_file", <<P(TP)>>)>>),
     F("read_file", <<P(TP)>>), F("read_file", <<P(TB)>>),
     F("abort", <<F("abort", <<>>)>>),
     F("ifelse", <<W("a")>>), F("ifelse", <<L(<<>>), W("a")>>),
     F("less_than_int", <<W("1")>>), F("less_than_int", <<W("1"), W("a")>>),
     F("less_than_int", <<N("-12"), N(" 3")>>), F("less_than_int", <<N("1a"), W(" ")>>),
     F("apply_patch_space", <<N("1a")>>), F("set_perm", <<W("1"), W("2"), N("08"), P(TP)>>),
     Then(F("ui_print", <<L(<<"a", "a", "progress">>)>>), AbortE),
     Then(F("ui_print", <<L(<<"a", "a", "b", "b", "a">>)>>), AbortE),
     F("greater_than_int", <<W("1")>>),
     F("file_getprop", <<P(TE), W("k")>>), F("file_getprop", <<P(TB), W("k")>>),
     F("package_extract_dir", <<W("S"), W("S")>>),
     F("package_extract_file", <<W("z"), P(TB)>>),
     Then(F("sha1_check", <<F("package_extract_file", <<W("z")>>)>>),
          F("sha1_check", <<F("read_file", <<P(TP)>>)>>)),
     F("write_raw_image", <<P(TB), L(<<>>)>>), F("write_raw_image", <<P(TB), W("boot")>>),
     F("set_perm", <<W("a"), W("2"), W("3"), P(TP)>>),
     F("set_perm_recursive", <<W("1"), W("a"), W("3"), W("4"), P(TP)>>),
     F("&&", <<L(<<>>), W("a")>>), F("||", <<W("a"), AbortE>>),
     F("package_extract_dir", <<W("z"), W("S")>>),
     F("package_extract_dir", <<W("s"), P(TP)>>),
     F("package_extract_dir", <<W("s"), P(TD)>>),
     F("apply_patch", <<P(TP), P(TP), W("prop"), W("1"), W("old"),
                        F("package_extract_file", <<W("x")>>)>>)}

-----------------------------------------------------------------------------
(* Packages *)

Bin == <<"BIN">>
Scr == <<"SCR">>
Amd == <<"AMD">>
X(name, data) == [name |-> name, data |-> data, header |-> TRUE, intact |-> TRUE]
System == <<X(<<"s", "/", "b", "/", "x">>, "1"), X(<<"s", "a">>, "2"), X(<<"s", "/">>, ""),
            X(<<"s", "/", "a">>, "3"), X(<<"s", ".">>, "4"), X(<<"s", "/", "a">>, "5")>>
Directory(bin) == <<X(<<"x">>, "img"), X(Bin, bin)>> \o System \o <<X(Scr, "script")>>

Pkg(dir, script) ==
    [len |-> 400, first |-> "LOC", ends |-> {100}, dir |-> (100 :> dir),
     footer |-> [magic |-> TRUE, sig |-> 262, comment |-> 278],
     signature |-> [key |-> "key", covers |-> 120], script |-> script]

Good == Pkg(Directory("updater"), W("a"))

\* Packages that are not what they should be.
Broken ==
    {[Good EXCEPT !.signature.key = "other"],
     [Good EXCEPT !.signature.covers = 122],
     [Good EXCEPT !.footer.magic = FALSE],
     [Good EXCEPT !.footer.sig = 261],
     [Good EXCEPT !.footer.comment = 500],
     [Good EXCEPT !.footer.comment = 270],
     [Good EXCEPT !.ends = {100, 374}, !.dir = (100 :> Directory("updater")) @@ (374 :> Directory("other"))],
     [Good EXCEPT !.ends = {100, 396}, !.dir = (100 :> Directory("updater")) @@ (396 :> <<>>)],
     [Good EXCEPT !.ends = {}],
     [Good EXCEPT !.first = "END"],
     [Good EXCEPT !.len = 20],
     [Good EXCEPT !.dir = (100 :> <<>>)],
     [Good EXCEPT !.dir[100][3].header = FALSE],
     [Good EXCEPT !.dir[100][2].intact = FALSE],
     [Good EXCEPT !.dir[100][9].intact = FALSE],
     [Good EXCEPT !.dir = (100 :> System)],
     [Good EXCEPT !.dir = (100 :> <<X(Amd, "amend")>>)],
     [Good EXCEPT !.dir = (100 :> <<X(Bin, "updater")>>)],
     [Good EXCEPT !.dir = (100 :> <<X(Bin, "garbage")>>)],
     [Good EXCEPT !.dir = (100 :> Directory("other"))],
     [Good EXCEPT !.script = [fn |-> "syntax error", args |-> <<>>, text |-> <<>>]]}

MCPackages == {Good} \cup Broken
              \cup {Pkg(Directory("updater"), s) : s \in {Full, Patch, Kernel, Tests} \cup Errors}
              \cup {[Pkg(Directory("updater"), Full) EXCEPT !.dir[100][3].intact = FALSE],
                    [Pkg(Directory("updater"), Kernel) EXCEPT !.dir[100][1].intact = FALSE]}

RECURSIVE Parts(_)
Parts(e) == {e} \cup UNION {Parts(e.args[i]) : i \in DOMAIN e.args}
MCExprs == UNION {Parts(p.script) : p \in MCPackages}

\* The full update alone.
MCRelease == {Pkg(Directory("updater"), Full)}

MCKeyFiles == {<<>>, <<"key0", "key">>}
MCOrd == [c \in {".", "/", "AMD", "BIN", "SCR", "S", "T", "a", "b", "s", "x", "z"} |->
            CHOOSE i \in 1..12 :
                <<".", "/", "AMD", "BIN", "S", "SCR", "T", "a", "b", "s", "x", "z">>[i] = c]
MCProps == <<"k">> :> <<"v">>
MCPropFiles == "prop" :> MCProps
MCOtherLines ==
    {Line("progress", <<"1", "2">>), Line("progress", <<"1">>), Line("set_progress", <<>>), Line("ui_print", <<"a">>), Line("unknown", <<>>), Line("", <<>>),
     Line("firmware", <<"PACKAGE:", "x">>), Line("firmware", <<"PACKAGE:", "z">>),
     Line("firmware", TP), Line("firmware", TB)}
MCTree0 ==
    [p \in {"ram", "S"} |->
        IF p = "ram" THEN (TP :> Node("file", <<"prop">>)) @@ (TE :> Node("file", <<"">>))
             @@ (TD :> Node("dir", <<>>)) @@ (TD \o <<"/", "a">> :> Node("dir", <<>>))
        ELSE (SD :> Node("dir", <<>>)) @@ (SD \o <<"/", "x">> :> Node("file", <<"x">>))
             @@ (SO :> Node("file", <<"old">>)) @@ (SL :> Node("link", SO))]
=============================================================================
