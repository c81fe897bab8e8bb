---------------------------- MODULE MCSessionDrafts ----------------------------
EXTENDS SessionDrafts

CONSTANTS phone, laptop

TwoDevices == {phone, laptop}
OneDevice == {phone}

DraftsRisk ==
  [visit |-> 2, type |-> 2, leave |-> 1, lost |-> 2, save |-> 1, turn |-> 1, expire |-> 1, revert |-> 1,
   refresh |-> 1, reload |-> 1, remove |-> 1, unremoved |-> 1, send |-> 1, ended |-> 1]

RefreshRisk == [visit |-> 2, type |-> 2, refresh |-> 1]

RemovalRisk == [visit |-> 1, type |-> 1, unremoved |-> 1, lost |-> 1]

===============================================================================
