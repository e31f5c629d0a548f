------------------------------ MODULE MCRegistry -----------------------------
(***************************************************************************)
(* Values of every type, fields at both sides of every bound, and script   *)
(* expressions of every function and nesting.  The widths of integers are  *)
(* scaled down, the lengths of keys are those of the code.                 *)
(***************************************************************************)
EXTENDS RegistryPromise

MCDateMin == -12 * SECONDS_PER_DAY
FirstDay == DATE_MIN \div SECONDS_PER_DAY
LastDay == DATE_MAX \div SECONDS_PER_DAY
MostDays == INT64_MAX \div SECONDS_PER_DAY

Fill(n, b) == [i \in 1 .. n |-> b]
Secret(b) == <<0>> \o Fill(32, b)
Point(b) == <<2>> \o Fill(32, b)

Indices == {0, UINT31_MAX}
Children == {ChildNew(n, h) : n \in Indices \cup {UINT31_MAX + 1}, h \in BOOLEAN}
OkChildren == {r.ok : r \in {x \in Children : IsOk(x)}}
Ranges == {RangeNew(s, e, TRUE) : s \in Indices, e \in Indices}
OkRanges == {r.ok : r \in {x \in Ranges : IsOk(x)}}
Steps == {[child |-> c] : c \in OkChildren} \cup {[wildcard |-> h] : h \in BOOLEAN}
         \cup {[range |-> r] : r \in OkRanges}
         \cup {[pair |-> <<Child(0, FALSE), Child(1, h)>>] : h \in BOOLEAN}
Kinds == {[child |-> Child(3, TRUE)], [wildcard |-> FALSE], [pair |-> <<Child(0, FALSE), Child(1, TRUE)>>]}
Paths == {<<>>} \cup {<<s>> : s \in Steps} \cup {p \in Kinds \X Kinds : p[1] # p[2]}

Components(p) == [components |-> p]
Keypaths ==
  {KeypathNew(Components(p)) : p \in Paths}
  \cup {KeypathNew(With(With(Components(p), "source_fingerprint", n), "depth", d)) :
          p \in {<<[child |-> Child(1, TRUE)]>>}, n \in {0, 1, UINT32_MAX}, d \in {0, UINT8_MAX}}
APath == KeypathNew(With(Components(<<[child |-> Child(44, TRUE)]>>), "source_fingerprint", 7)).ok

CoinInfos == {CoinInfo(t, n) : t \in {0, 60, UINT31_MAX, UINT31_MAX + 1},
                               n \in {-UINT31_MAX - 1, 0, UINT31_MAX}}
ACoin == CoinInfo(60, -1).ok

HeaderOf(gt, gc, gi, mt, mi) ==
  [identifier |-> 258, group_threshold |-> gt, group_count |-> gc, group_index |-> gi,
   member_threshold |-> mt, member_index |-> mi]
Headers == {HeaderOf(gt, gc, gi, mt, mi) : gt \in {0, 1, 2, 16, 17}, gc \in {1, 2, 16, 17},
              gi \in {0, 1, 15, 16}, mt \in {0, 1, 16, 17}, mi \in {0, 15, 16}}

Curves == {Secp256k1, Other(1)}
EcKeysOver(curves) == {EcKeyNew(c, p, Fill(n, 9)) : c \in curves, p \in BOOLEAN, n \in {0, 32, 33, 65}}

Hd == <<"hdkey", DerivedPublic(Point(3))>>
Ec == <<"eckey", EcKeyNew(Secp256k1, FALSE, Point(5)).ok>>
Ad == <<"address", AddressTyped("p2sh", Fill(20, 6))>>
Keys == {Hd, Ec, Ad}

Source(ats) == Call("tr", [i \in DOMAIN ats |-> At(ats[i])])
TwelveKeys == [i \in 1 .. 12 |-> <<"hdkey", DerivedPublic(Point(i))>>]
Outputs ==
  {OutputNew(Source(<<0>>), <<k>>) : k \in Keys}
  \cup {OutputNew(Source(ats), <<Hd, Ec>>) :
          ats \in {<<0, 1>>, <<1, 0>>, <<0, 0>>, <<0, 1, 1>>, <<0, 2>>, <<10>>, <<0>>}}
  \cup {OutputNew(Source([i \in 1 .. 12 |-> i - 1]), TwelveKeys),
        OutputNew(<<"raw", "@", ")">>, <<>>), OutputNew(<<"@", "0", "1", "@", "0">>, <<Hd, Ad>>)}
AnOutput == OutputNew(Source(<<0>>), <<Ad>>).ok

Made0 ==
  {<<"coin_info", r>> : r \in CoinInfos} \cup {<<"keypath", r>> : r \in Keypaths}
  \cup {<<"seed", SeedNew(Fill(n, 7))>> : n \in {0, 1, 64, 65}}
  \cup {<<"sskr", SskrNew(h, Fill(n, 4))>> : h \in Headers, n \in {0, 2}}
  \cup {<<"psbt", PsbtNew(b)>> : b \in {PSBT_MAGIC, PSBT_MAGIC \o <<1>>, Tail(PSBT_MAGIC), Fill(6, 112)}}
  \cup {<<"hdkey", r>> : r \in {MasterNew(Secret(1), Fill(32, 2)), MasterNew(Point(1), Fill(32, 2)),
                                Ok(DerivedPublic(Point(3))), DerivedPrivate(Secret(3)),
                                DerivedPrivate(Point(3))}}
  \cup {<<"address", r>> : r \in {Ok(AddressTyped(t, Fill(20, 6))) : t \in {"p2pkh", "p2sh", "p2wpkh"}}
                              \cup {AddressUntyped(<<>>), AddressUntyped(<<8>>)}}
  \cup {<<"output_descriptor", r>> : r \in Outputs}
  \cup {<<"account_descriptor", Ok(AccountNew(n, AnOutput))>> : n \in {0, UINT32_MAX}}
MCMade == Made0 \cup {<<"eckey", r>> : r \in EcKeysOver(Curves)}
MCMadeCurve == {<<"eckey", r>> : r \in EcKeysOver(Curves \cup {Other(0)})}

MCSetters ==
  {<<"creation_date", d>> : d \in {DATE_MIN, DATE_MAX}}
  \cup {<<f, t>> : f \in {"name", "note"}, t \in {<<>>, <<"n">>}}
  \cup {<<"chain_code", Fill(32, 2)>>, <<"use_info", ACoin>>, <<"info", ACoin>>,
        <<"origin", APath>>, <<"children", Components(<<[wildcard |-> FALSE]>>)>>, <<"parent_fingerprint", 0>>,
        <<"parent_fingerprint", UINT32_MAX>>, <<"output_descriptor", AnOutput>>}

-----------------------------------------------------------------------------
(* Terms for fields: each reader's bounds, each wrong type, each tag *)

Numbers == {-UINT31_MAX - 2, -UINT31_MAX - 1, -1, 0, 1, 3, UINT8_MAX, UINT8_MAX + 1, UINT31_MAX,
            UINT31_MAX + 1, UINT32_MAX, UINT32_MAX + 1}
\* Each way out of read_date: the ends of the calendar, of i64 seconds and of
\* i64, a day whose seconds would wrap into the calendar, and no f64
Days == {FirstDay - 1, 0, LastDay, LastDay + 1, MostDays, MostDays + 1,
         -MostDays - 1, 2 * MostDays + 1, INT64_MAX + 1}
Seconds == {DATE_MIN - 1, DATE_MAX, DATE_MAX + 1, F64_EXACT + 1}
F == Bool(FALSE)
ItemLists ==
  { <<Uint(UINT31_MAX + 1), F>>, <<Uint(0)>>, <<Uint(0), Uint(0)>>, <<F, F>>, <<Array(<<>>)>>,
    <<Array(<<Uint(1), Uint(1)>>), F>>, <<Array(<<Uint(2), Uint(1)>>), F>>,
    <<Array(<<Uint(1), Uint(2)>>), F>>, <<Array(<<Uint(1), Uint(2)>>)>>,
    <<Array(<<Uint(1), F, Uint(2)>>), F>>, <<Array(<<Uint(1), F, Uint(2), F>>), F>>,
    <<Array(<<Uint(1), F, Uint(2), F>>), Uint(3), F>>, <<Uint(1), F, Array(<<>>), F>> }
MCFieldKeys == {-1} \cup 1 .. 10
MCFieldTerms ==
  {Signed(n) : n \in Numbers} \cup {Bool(b) : b \in BOOLEAN} \cup {Null}
  \cup {Text(t) : t \in {<<>>, <<"t">>, <<"@", "0">>, <<"@", "1">>, <<"@", "0", "@", "1">>}}
  \cup {Bytes(Fill(n, 2)) : n \in {0, 1, 20, 21, 32, 33, 64, 65}} \cup {Bytes(Secret(2))}
  \cup {Array(items) : items \in ItemLists}
  \cup {Array(ks) : ks \in {<<>>, <<KeyTerm(Hd)>>, <<KeyTerm(Ad), KeyTerm(Ec)>>,
                            <<Tagged(303, HdKeyTerm(Hd[2]))>>, <<Tagged(40305, HdKeyTerm(Hd[2]))>>}}
  \cup {Tagged(100, Signed(d)) : d \in Days}
  \cup {Tagged(1, Signed(n)) : n \in Seconds} \cup {Tagged(1, Text(<<>>)), Tagged(2, Uint(5))}
  \cup {Tagged(t, CoinInfoTerm(ACoin)) : t \in {40305, 305, 40304}}
  \cup {Tagged(t, KeypathTerm(APath)) : t \in {40304, 304, 40305}}
  \cup {Tagged(304, Map(1 :> Array(<<>>))), Tagged(305, Map(1 :> Uint(0) @@ 2 :> Uint(0))),
        Tagged(40305, Map(-1 :> Uint(0)))}

-----------------------------------------------------------------------------
(* Script expressions: trees of three functions at most, over good keys    *)
(* and a bad one, and the bodies they stand in                             *)

K1 == KeyTerm(Hd)
K2 == Tagged(306, EcKeyTerm(Ec[2]))
BadKey == Tagged(303, Map(8 :> Uint(0) @@ 3 :> Bytes(Point(3))))

MultiTerm(n, ks) == Map(1 :> Uint(n) @@ 2 :> Array(ks))
LeafScripts ==
  {Tagged(f, k) : f \in {PK, PKH, WPKH, COMBO, COSIGNER, TR}, k \in {K1, K2}}
  \cup {Tagged(RAW, Bytes(<<0, 173>>)), Tagged(RAW, Uint(1)), Tagged(PK, BadKey), Tagged(PK, Uint(1)),
        Tagged(TR, Tagged(PK, K1)), Tagged(TR, Tagged(99, K1)), Tagged(99, K1), K1, Null}
  \cup {Tagged(f, MultiTerm(n, ks)) : f \in {MULTI, SORTEDMULTI}, n \in 0 .. 3,
                                      ks \in {<<>>, <<K1, K2>>, <<K2, K1, K1>>, <<K1, BadKey>>}}
  \cup {Tagged(MULTI, MultiTerm(11, [i \in 1 .. 12 |-> IF i = 11 THEN K2 ELSE K1])),
        Tagged(MULTI, Map(1 :> Uint(1))), Tagged(MULTI, Map(3 :> Uint(1)))}
Wrapped == {Tagged(w, s) : w \in {SH, WSH}, s \in LeafScripts}
Wrapped2 == {Tagged(w, s) : w \in {SH, WSH}, s \in Wrapped}
Wrapped3 == {Tagged(w, Tagged(v, Tagged(u, Tagged(PK, K1)))) :
               w \in {SH, WSH}, v \in {SH, WSH}, u \in {SH, WSH}}
AllScripts == LeafScripts \cup Wrapped \cup Wrapped2 \cup Wrapped3

Account(items) == Map(1 :> Uint(0) @@ 2 :> Array(items))
Headed(b) == Bytes(<<1, 2>> \o b)
MCForeign ==
  {<<"output_descriptor", s>> : s \in AllScripts}
  \cup {<<"account_descriptor", Account(<<s>>)>> : s \in AllScripts}
  \cup {<<"account_descriptor", Account(<<Tagged(308, s), Write("output_descriptor", OutputTerm(AnOutput))>>)>> :
          s \in LeafScripts \cup Wrapped}
  \cup {<<"account_descriptor", Account(<<>>)>>}
  \cup {<<"sskr", Headed(b)>> : b \in {<<17, 17, 0>>, <<17, 17, 16>>, <<16, 0, 0>>, <<1, 32, 0>>,
                                        <<255, 240, 15, 3>>, <<0, 0>>}}
  \cup {<<"psbt", Bytes(<<112>>)>>, <<"psbt", Null>>, <<"hdkey", Null>>}
=============================================================================
