SPECIFICATION SpecRegistry
CONSTANTS
    Keys <- MCKeys
    Devices <- MCDevices
    DeviceOf <- MCDeviceOf
    Legacy <- MCLegacy
    Named <- MCNamed
    Supersedes <- MCSupersedes
PROPERTY CleanupLasts
