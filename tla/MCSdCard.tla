------------------------------ MODULE MCSdCard ------------------------------
EXTENDS SdCard

\* One command, two commands, an address that bytes and blocks tell apart, and blocks that
\* the card has but the driver refuses.
SomeRequests == {<<0, 1>>, <<1, 1>>, <<0, 3>>, <<1, 2>>, <<2, 2>>}
=============================================================================
