----------------------------- MODULE MCRunNotify -----------------------------
(***************************************************************************)
(* Channel set-ups for model checking RunNotify: each channel of the code  *)
(* in each of the states its settings can put it in.                       *)
(***************************************************************************)
EXTENDS RunNotify

MCChannels == <<"webhook", "chat", "email">>

SetupOf(webhook, chat, email) ==
    [c \in {"webhook", "chat", "email"} |->
        CASE c = "webhook" -> webhook [] c = "chat" -> chat [] OTHER -> email]

\* Webhook and relay without a chat, webhook and chat without an address,
\* recipients without a relay, and log mode.
MCSetups ==
    {SetupOf("ready", "bare", "ready"), SetupOf("ready", "ready", "bare"),
     SetupOf("ready", "off", "log"), SetupOf("log", "log", "bare")}
=============================================================================
