----------------------------- MODULE MCOtlpExport -----------------------------
(***************************************************************************)
(* Instances of OtlpExport for TLC.                                        *)
(***************************************************************************)
EXTENDS OtlpExport, SequencesExt

\* Up to this many tokens after the authority.
MaxTokens == 5

\* Without a query or fragment.  "x" and a suffix may touch, as in
\* "/xv1/traces", which does not end in "/v1/traces".
PlainUrls == {u \in BoundedSeq(Tokens \ {"?"}, MaxTokens) :
                u # <<>> => u[1] = "/"}

Root == {<<>>}

\* Two spellings of one name, and another name.
OneName == [n \in Spellings |-> IF n = "X-Shared" THEN "x-shared" ELSE n]

\* Configurations that differ from the default in one field each.
OtherUrl      == {c \in [url : Urls \cup {Invalid},
                         headers : {Default.headers},
                         interval : {Default.interval}] : c \in Configs}
OtherHeaders  == {[Default EXCEPT !.headers = h] : h \in Headers}
OtherInterval == {[Default EXCEPT !.interval = d] :
                    d \in 0..((MaxSeconds + 1) * PerSecond)}

OneField == OtherUrl \cup OtherHeaders \cup OtherInterval

\* Any field may be left out.
ByHand == {t \in [url     : {<<>>, <<"/">>, Invalid, None},
                  headers : {Default.headers, None},
                  seconds : 0..(MaxSeconds + 1) \cup {None}] : t \in Texts}
=============================================================================
