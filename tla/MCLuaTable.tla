----------------------------- MODULE MCLuaTable -----------------------------
(* Keys of every kind that is hashed in its own way, with collisions.       *)
EXTENDS LuaTable

MCKeys == {<<"int", 1>>, <<"int", 2>>, <<"str", 1>>, <<"str", 5>>, <<"str", 3>>}

MCHash(k) == k[2]

MCValues(k) == {<<"value", k>>}
==============================================================================
