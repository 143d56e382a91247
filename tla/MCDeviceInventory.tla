-------------------------- MODULE MCDeviceInventory --------------------------
EXTENDS DeviceInventory, TLC

CONSTANTS s1, s2, w1, w2
=============================================================================
