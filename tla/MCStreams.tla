------------------------------ MODULE MCStreams ------------------------------
(* Small packets for each rule of StreamRules, and thresholds that a few   *)
(* packets reach.                                                          *)
EXTENDS StreamRules

MCRules == RepeatRuleIds \cup HandshakeRuleIds

MCLimit == [r \in {13835, 13667, 13803} |-> IF r = 13835 THEN 4 ELSE 3]

(* Nothing comes after the end of a packet.                                *)
Text == {t \in UNION {[1..n -> Words] : n \in 0..2} :
            \A i \in 1..(Len(t) - 1) : t[i] # "cut"}

Msg(t, l) == [type |-> t, len |-> l]

Tls == {<<Msg("srphello", 0)>>,
        <<Msg("serverkeyx", 1)>>,
        <<Msg("serverkeyx", -1)>>,
        <<Msg("clientkeyx", 1)>>,
        <<Msg("clientkeyx", 2)>>,
        <<Msg("srphello", 0), Msg("serverkeyx", 2)>>,
        <<Msg("other", 0), Msg("srphello", 0), Msg("serverkeyx", 1)>>,
        <<Msg("hello", 0), Msg("clientkeyx", 2)>>}

Hello == [from : {"client", "server"}, len : {0, 5, 32}, msb : {0, 1}]

Ldap == [page : {<<1>>, <<2, 1>>}, pageWhole : BOOLEAN,
         sort : {<<1>>, <<2>>, <<1, 1>>, <<1, 1, 1>>}, sortWhole : BOOLEAN]

Part(t, s, n, l) == [type |-> t, seq |-> s, total |-> n, len |-> l]

Dtls ==
    [gap : 0..3,
     fragments : {<<>>,
                  <<Part("hello", 0, 2, 1)>>,
                  <<Part("hello", 0, 3, 1)>>,
                  <<Part("keyx", 0, 3, 1)>>,
                  <<Part("hello", 1, 2, 1)>>,
                  <<Part("hello", 2, 2, 1)>>,
                  <<Part("hello", 2, 3, 1)>>,
                  <<Part("hello", 0, 3, 3), Part("hello", 0, 3, 2)>>,
                  <<Part("server", 0, 2, 1), Part("hello", 0, 2, 1)>>,
                  <<Part("hello", 0, 2, 3), Part("hello", 0, 2, 1)>>}]

MCPackets ==
    [r \in MCRules |->
        CASE r \in {13835, 13667} -> {0, 1}
          [] r = 13803            -> {0, 1, 2}
          [] r = 15125            -> Text
          [] r = 59879            -> Tls
          [] r = 41547            -> Hello
          [] r = 13475            -> Ldap
          [] r = 31361            -> Dtls]

MCMaxPackets ==
    [r \in MCRules |->
        CASE r \in {13835, 13667, 13803} -> 9
          [] r = 59879                   -> 6
          [] r \in {41547, 31361}        -> 4
          [] r \in {15125, 13475}        -> 3]
=============================================================================
